---- MODULE Spec2Model ----
(***************************************************************************)
(* A model of the front end of the muRust compiler: the Lexer              *)
(* (src/src/lexer.rs), the recursive-descent Parser                        *)
(* (src/src/parser/productions.rs, src/src/parser/productions/ops.rs) and  *)
(* the expression-capability queries of the AST (src/src/ast/expr).        *)
(*                                                                         *)
(* A source file is a sequence of characters (one-character strings).      *)
(* The lexer and the parser are pure functions of their state, written as  *)
(* operators that thread the state the Rust code mutates through &mut      *)
(* self; every operator returns the new state next to its result.          *)
(***************************************************************************)
EXTENDS Integers, Sequences, FiniteSets, TLC

VARIABLES
    source,   \* the characters of the file being lexed / parsed
    pc,       \* position of the driving program
    lexer,    \* a Lexer pulled from directly (the doc example of lexer.rs)
    pulled,   \* what each pull on `lexer` returned, in order
    outcome,  \* what Parser::parse returned
    query,    \* the last capability query / code_gen call on an AST node
    plan      \* how the file was written: what its author put into it

vars == <<source, pc, lexer, pulled, outcome, query, plan>>

\* A Rust `let x = e;` followed by the rest of the body: With([x \in {e} |-> b])
\* is b with x standing for the value of e, which is computed once.
With(f) == f[CHOOSE x \in DOMAIN f : TRUE]

----------------------------------------------------------------------------
(* Characters *)

Digits == {"0", "1", "2", "3", "4", "5", "6", "7", "8", "9"}

\* helper::is_digit
is_digit(c) == c \in Digits

\* the characters helper::is_whitespace holds of, among those a TLA+ string
\* can hold
Whitespace == {"\t", "\n", "\f", "\r", " "}

\* helper::is_new_line
is_new_line(c) == c = "\n"

\* unicode_ident::is_xid_start on the ASCII range
XidStart ==
    {"a", "b", "c", "d", "e", "f", "g", "h", "i", "j", "k", "l", "m", "n",
     "o", "p", "q", "r", "s", "t", "u", "v", "w", "x", "y", "z", "C", "X"}

is_xid_start(c) == c \in XidStart

\* the characters unicode_ident::is_xid_continue holds of, on the ASCII range
XidContinue == XidStart \cup Digits \cup {"_"}

----------------------------------------------------------------------------
(* Position and Span (src/src/token/span.rs) *)

\* Position::new
Position_new == [line |-> 1, column |-> 1]

\* Position::line_inc
line_inc(pos) == [line |-> pos.line + 1, column |-> 1]

\* Position::col_inc
col_inc(pos) == [line |-> pos.line, column |-> pos.column + 1]

\* Span::new
Span_new(start, end) == [start |-> start, end |-> end]

(* Positions are ordered as (line, column) pairs. *)
PosLe(a, b) == a.line < b.line \/ (a.line = b.line /\ a.column <= b.column)

----------------------------------------------------------------------------
(* Tokens (src/src/token.rs) *)

\* TokenType::extract_keyword_or_symbol; "" stands for None
extract_keyword_or_symbol(s) ==
    CASE s = <<"f", "n">> -> "Fn"
      [] s = <<"s", "t", "a", "t", "i", "c">> -> "Static"
      [] s = <<"e", "x", "t", "e", "r", "n">> -> "Extern"
      [] s = <<"l", "e", "t">> -> "Let"
      [] s = <<"m", "u", "t">> -> "Mut"
      [] s = <<"a", "s">> -> "As"
      [] s = <<"l", "o", "o", "p">> -> "Loop"
      [] s = <<"w", "h", "i", "l", "e">> -> "While"
      [] s = <<"i", "f">> -> "If"
      [] s = <<"e", "l", "s", "e">> -> "Else"
      [] s = <<"u", "n", "s", "a", "f", "e">> -> "Unsafe"
      [] s = <<"r", "e", "t", "u", "r", "n">> -> "Return"
      [] s = <<"(">> -> "LPar"
      [] s = <<")">> -> "RPar"
      [] s = <<"{">> -> "LBra"
      [] s = <<"}">> -> "RBra"
      [] s = <<";">> -> "Semi"
      [] s = <<",">> -> "Comma"
      [] s = <<":">> -> "Colon"
      [] s = <<"-", ">">> -> "Arrow"
      [] s = <<"t", "r", "u", "e">> -> "BoolLit"
      [] s = <<"f", "a", "l", "s", "e">> -> "BoolLit"
      [] s = <<"=">> -> "Assign"
      [] s = <<"+">> -> "Plus"
      [] s = <<"-">> -> "Minus"
      [] s = <<"*">> -> "Asterisk"
      [] s = <<"/">> -> "Div"
      [] s = <<"%">> -> "Mod"
      [] s = <<"&">> -> "BitAnd"
      [] s = <<"|">> -> "BitOr"
      [] s = <<"^">> -> "BitXor"
      [] s = <<"!">> -> "Not"
      [] s = <<"&", "&">> -> "And"
      [] s = <<"|", "|">> -> "Or"
      [] s = <<"=", "=">> -> "Eq"
      [] s = <<"!", "=">> -> "Ne"
      [] s = <<">">> -> "Gt"
      [] s = <<"<">> -> "Lt"
      [] s = <<">", "=">> -> "Ge"
      [] s = <<"<", "=">> -> "Le"
      [] OTHER -> ""

\* Token::new; val is the payload of Ident, Abi, IntLit, FloatLit and BoolLit
\* (the text it was read from) and <<>> for every other token type
Token_new(ty, val, start, end) ==
    [ty |-> ty, val |-> val, span |-> Span_new(start, end)]

\* Token::eof
Token_eof(pos) == Token_new("EOF", <<>>, pos, pos)

\* Token::is_eof
is_eof(t) == t.ty = "EOF"

----------------------------------------------------------------------------
(* Lexer (src/src/lexer.rs).  A lexer is [rest, position, finished]: the   *)
(* characters self.iter has not yielded yet, self.position, self.finished. *)

\* Lexer::new
Lexer_new(text) == [rest |-> text, position |-> Position_new, finished |-> FALSE]

\* i32::MAX, as decimal digits
I32Max == <<"2", "1", "4", "7", "4", "8", "3", "6", "4", "7">>

(* s without its leading zeros *)
RECURSIVE StripZeros(_)
StripZeros(s) == IF s /= <<>> /\ Head(s) = "0" THEN StripZeros(Tail(s)) ELSE s

(* The order of the decimal digits, as characters *)
DigitVal(c) ==
    CASE c = "0" -> 0 [] c = "1" -> 1 [] c = "2" -> 2 [] c = "3" -> 3
      [] c = "4" -> 4 [] c = "5" -> 5 [] c = "6" -> 6 [] c = "7" -> 7
      [] c = "8" -> 8 [] c = "9" -> 9

(* a <= b for two digit strings of the same length *)
RECURSIVE DigitsLe(_, _)
DigitsLe(a, b) ==
    \/ a = <<>>
    \/ DigitVal(Head(a)) < DigitVal(Head(b))
    \/ Head(a) = Head(b) /\ DigitsLe(Tail(a), Tail(b))

\* <str>::parse::<i32>() on a run that starts with a digit: decimal digits
\* only, and a value of at most i32::MAX
parse_i32_ok(s) ==
    /\ \A i \in 1..Len(s) : s[i] \in Digits
    /\ LET t == StripZeros(s)
       IN Len(t) < Len(I32Max) \/ (Len(t) = Len(I32Max) /\ DigitsLe(t, I32Max))

\* <str>::parse::<f64>() on a run that starts with a digit and holds a '.':
\* digits '.' digits*, then an optional exponent e digits+
parse_f64_ok(s) ==
    \E d \in 1..Len(s) :
        /\ s[d] = "."
        /\ \A i \in 1..(d - 1) : s[i] \in Digits
        /\ \/ \A i \in (d + 1)..Len(s) : s[i] \in Digits
           \/ \E e \in (d + 1)..(Len(s) - 1) :
                /\ s[e] \in {"e", "E"}
                /\ \A i \in (d + 1)..(e - 1) : s[i] \in Digits
                /\ \A i \in (e + 1)..Len(s) : s[i] \in Digits

\* LexerError::new
LexerError_new(kind, text, span) == [kind |-> kind, text |-> text, span |-> span]

RECURSIVE collect_while(_, _, _)
\* Lexer::collect_while; pred is the set of characters the predicate accepts.
\* Returns the lexer and the string collected.
collect_while(lx, pred, s) ==
    IF lx.rest /= <<>> /\ Head(lx.rest) \in pred
    THEN LET c == Head(lx.rest)
             pos1 == col_inc(lx.position)
             pos2 == IF is_new_line(c) THEN line_inc(pos1) ELSE pos1
         IN collect_while([lx EXCEPT !.rest = Tail(@), !.position = pos2],
                          pred, Append(s, c))
    ELSE [lx |-> lx, s |-> s]

RECURSIVE skip_comment(_)
\* Lexer::next_token, the loop that skips a `//` comment up to the new line
skip_comment(lx) ==
    IF lx.rest /= <<>> /\ ~is_new_line(Head(lx.rest))
    THEN skip_comment([lx EXCEPT !.rest = Tail(@), !.position = col_inc(@)])
    ELSE lx

RECURSIVE collect_string(_, _, _)
\* Lexer::next_token, the loop that reads a string literal up to the first
\* quote that is not escaped
collect_string(lx, str_lit, escaped) ==
    IF lx.rest /= <<>> /\ (Head(lx.rest) /= "\"" \/ escaped)
    THEN LET c == Head(lx.rest)
         IN collect_string([lx EXCEPT !.rest = Tail(@), !.position = col_inc(@)],
                           Append(str_lit, c),
                           IF c = "\\" THEN ~escaped ELSE escaped)
    ELSE [lx |-> lx, s |-> str_lit]

LexOk(lx, tok) == [lx |-> lx, ok |-> TRUE, tok |-> tok]
LexErr(lx, err) == [lx |-> lx, ok |-> FALSE, err |-> err]

\* a match on (c, n) that selects no two-character symbol
two_char_symbol_none(c, n) == <<>>

\* the pair (c, n) of Lexer::next_token's match, as the &str it selects
two_char_symbol(c, n) ==
    IF <<c, n>> \in {<<"-", ">">>, <<"&", "&">>, <<"|", "|">>, <<"=", "=">>,
                     <<"!", "=">>, <<"<", "=">>, <<">", "=">>}
    THEN <<c, n>>
    ELSE <<>>

RECURSIVE next_token(_)
\* Lexer::next_token
next_token(lx0) ==
    With([lx1 \in {collect_while(lx0, Whitespace, <<>>).lx} |->
    LET start_pos == lx1.position
    IN
    IF lx1.rest = <<>>
    THEN LexOk([lx1 EXCEPT !.finished = TRUE], Token_eof(lx1.position))
    ELSE
    LET c == Head(lx1.rest)
        lx2 == [lx1 EXCEPT !.rest = Tail(@), !.position = col_inc(@)]
        hasNext == lx2.rest /= <<>>
        n == Head(lx2.rest)
    IN
    IF hasNext /\ c = "/" /\ n = "/"
    THEN next_token(skip_comment(lx2))
    ELSE
    LET tt2 == IF hasNext THEN extract_keyword_or_symbol(two_char_symbol(c, n))
               ELSE ""
        tt1 == extract_keyword_or_symbol(<<c>>)
    IN
    IF tt2 /= ""
    THEN LET lx3 == [lx2 EXCEPT !.rest = Tail(@), !.position = col_inc(@)]
         IN LexOk(lx3, Token_new(tt2, <<>>, start_pos, lx3.position))
    ELSE IF tt1 /= ""
    THEN LexOk(lx2, Token_new(tt1, <<>>, start_pos, lx2.position))
    ELSE IF is_digit(c)
    THEN With([r \in {collect_while(lx2, XidContinue \cup {"."}, <<c>>)} |->
         LET num_str == r.s
             span == Span_new(start_pos, r.lx.position)
         IN IF \E i \in 1..Len(num_str) : num_str[i] = "."
            THEN IF parse_f64_ok(num_str)
                 THEN LexOk(r.lx, Token_new("FloatLit", num_str, start_pos, r.lx.position))
                 ELSE LexErr(r.lx, LexerError_new("InvalidFloatLiteral", num_str, span))
            ELSE IF parse_i32_ok(num_str)
                 THEN LexOk(r.lx, Token_new("IntLit", num_str, start_pos, r.lx.position))
                 ELSE LexErr(r.lx, LexerError_new("InvalidIntLiteral", num_str, span))])
    ELSE IF c = "\""
    THEN With([r \in {collect_string(lx2, <<>>, FALSE)} |->
         IF r.lx.rest = <<>>
         THEN LexErr(r.lx, LexerError_new("UnterminatedStringLiteral", <<>>,
                                          Span_new(start_pos, r.lx.position)))
         ELSE LET lx3 == [r.lx EXCEPT !.rest = Tail(@), !.position = col_inc(@)]
              IN LexOk(lx3, Token_new("Abi", r.s, start_pos, lx3.position))])
    ELSE IF is_xid_start(c) \/ c = "_"
    THEN With([r \in {collect_while(lx2, XidContinue, <<c>>)} |->
         LET id_str == r.s
             kw == extract_keyword_or_symbol(id_str)
         IN IF kw /= ""
            THEN LexOk(r.lx, Token_new(kw, IF kw = "BoolLit" THEN id_str ELSE <<>>,
                                       start_pos, r.lx.position))
            ELSE LexOk(r.lx, Token_new("Ident", id_str, start_pos, r.lx.position))])
    ELSE LexErr(lx2, LexerError_new("UnknownToken", <<c>>,
                                    Span_new(start_pos, lx2.position)))])

\* What a pull returns: Ok(Some(token)), Ok(None) or Err(error)
Some(tok) == [kind |-> "Some", tok |-> tok]
None == [kind |-> "None"]
Error(err) == [kind |-> "Err", err |-> err]

\* a next that does not look at self.finished
Lexer_next_unfinished(lx) ==
    With([r \in {next_token(lx)} |->
          [lx |-> r.lx, out |-> IF r.ok THEN Some(r.tok) ELSE Error(r.err)]])

\* a next that takes the sequence for finished after an error
Lexer_next_fused(lx) ==
    IF lx.finished
    THEN [lx |-> lx, out |-> None]
    ELSE With([r \in {next_token(lx)} |->
               [lx |-> IF r.ok THEN r.lx ELSE [r.lx EXCEPT !.finished = TRUE],
                out |-> IF r.ok THEN Some(r.tok) ELSE Error(r.err)]])

\* <Lexer as FallibleIterator>::next; returns the lexer and the outcome
Lexer_next(lx) ==
    IF lx.finished
    THEN [lx |-> lx, out |-> None]
    ELSE With([r \in {next_token(lx)} |->
               [lx |-> r.lx, out |-> IF r.ok THEN Some(r.tok) ELSE Error(r.err)]])

----------------------------------------------------------------------------
(* Parser (src/src/parser.rs, src/src/parser/productions.rs).  A parser is *)
(* [lexer, peeked, errors, pulled]: the Lexer inside Peekable<Lexer>, the  *)
(* item Peekable has buffered (<<>> when it holds none), self.errors, and, *)
(* for the properties only, the outcome of every pull made on the lexer.   *)
(* An Option is <<>> for None and <<x>> for Some(x).                       *)

\* Parser::new
Parser_new(text) ==
    [lexer |-> Lexer_new(text), peeked |-> <<>>, errors |-> <<>>, pulled |-> <<>>]

\* Ok(v) / Err(e), with the parser as the call left it
POk(v, p) == [ok |-> TRUE, val |-> v, p |-> p]
PErr(e, p) == [ok |-> FALSE, err |-> e, p |-> p]

\* ParserError
UnexpectedEOF == [kind |-> "UnexpectedEOF"]
UnexpectedToken(actual, expected) ==
    [kind |-> "UnexpectedToken", actual |-> actual, expected |-> expected]
LexicalError(e) == [kind |-> "LexicalError", error |-> e]
Aggregated(errs) == [kind |-> "Aggregated", errors |-> errs]

\* not a ParserError: the call panicked (panic!, expect, unreachable!)
Panic(msg) == [kind |-> "Panic", message |-> msg]

\* RecoverableParserError and SemanticError
SemanticError(kind, span) == [kind |-> kind, span |-> span]
MissingToken(ty, pos) == [kind |-> "MissingToken", expected |-> ty, position |-> pos]
UnsupportedAbi(abi) == [kind |-> "UnsupportedAbi", abi |-> abi]

\* Parser::consume, with Peekable::next: the buffered item if there is one,
\* else a pull on the lexer
consume(p) ==
    With([r \in {IF p.peeked /= <<>>
                 THEN [out |-> p.peeked[1], p |-> [p EXCEPT !.peeked = <<>>]]
                 ELSE With([n \in {Lexer_next(p.lexer)} |->
                            [out |-> n.out,
                             p |-> [p EXCEPT !.lexer = n.lx,
                                             !.pulled = Append(@, n.out)]]])} |->
    CASE r.out.kind = "None" -> PErr(UnexpectedEOF, r.p)
      [] r.out.kind = "Some" -> POk(r.out.tok, r.p)
      [] r.out.kind = "Err" -> PErr(LexicalError(r.out.err), r.p)])

\* a peek that pulls on the lexer every time and buffers what it pulled last
peek_pulling(p) ==
    With([n \in {Lexer_next(p.lexer)} |->
    With([q \in {[p EXCEPT !.lexer = n.lx, !.pulled = Append(@, n.out),
                           !.peeked = IF n.out.kind = "Err" THEN <<>> ELSE <<n.out>>]} |->
    CASE n.out.kind = "None" -> PErr(UnexpectedEOF, q)
      [] n.out.kind = "Some" -> POk(n.out.tok, q)
      [] n.out.kind = "Err" -> PErr(LexicalError(n.out.err), q)])])

\* Parser::peek, with Peekable::peek: pulls only when nothing is buffered,
\* and buffers what was pulled unless it is an error
peek(p) ==
    With([r \in {IF p.peeked /= <<>>
                 THEN [out |-> p.peeked[1], p |-> p]
                 ELSE With([n \in {Lexer_next(p.lexer)} |->
                            [out |-> n.out,
                             p |-> [p EXCEPT !.lexer = n.lx,
                                             !.pulled = Append(@, n.out),
                                             !.peeked = IF n.out.kind = "Err"
                                                        THEN <<>> ELSE <<n.out>>]]])} |->
    CASE r.out.kind = "None" -> PErr(UnexpectedEOF, r.p)
      [] r.out.kind = "Some" -> POk(r.out.tok, r.p)
      [] r.out.kind = "Err" -> PErr(LexicalError(r.out.err), r.p)])

\* a push_rcv_error that keeps only the latest error
push_rcv_error_latest(p, error) == [p EXCEPT !.errors = <<error>>]

\* Parser::push_rcv_error
push_rcv_error(p, error) == [p EXCEPT !.errors = Append(@, error)]

\* unknown_token!(self, token, expected)
unknown_token_with(p, token, expected) == PErr(UnexpectedToken(token, expected), p)

\* an unknown_token! that looks at the token after the offending one
unknown_token_lookahead(p, expected) ==
    With([c \in {consume(p)} |->
    With([n \in {peek(c.p)} |->
    PErr(UnexpectedToken(c.val, expected), n.p)])])

\* unknown_token!(self, expected)
unknown_token(p, expected) ==
    With([c \in {consume(p)} |->
    IF ~c.ok
    THEN PErr(Panic("Unsuccessful consuming after successful peeking should be impossible."), c.p)
    ELSE unknown_token_with(c.p, c.val, expected)])

\* assert_token!(self, token, expected, expected_display); expected is the
\* set of token types the pattern matches
assert_token_with(p, token, expected, expected_display) ==
    IF token.ty \in expected
    THEN POk(token.span, p)
    ELSE unknown_token_with(p, token, expected_display)

\* assert_token!(self, expected, expected_display)
assert_token(p, expected, expected_display) ==
    With([c \in {consume(p)} |-> IF ~c.ok THEN c ELSE
    assert_token_with(c.p, c.val, expected, expected_display)])

\* expect_token!(self, expected)
expect_token(p, expected) ==
    With([pk \in {peek(p)} |-> IF ~pk.ok THEN pk ELSE
    IF pk.val.ty \in expected
    THEN With([c \in {consume(pk.p)} |-> IF ~c.ok THEN c ELSE
         IF c.val.ty \in expected
         THEN POk(<<c.val.span>>, c.p)
         ELSE PErr(Panic("unreachable"), c.p)])
    ELSE POk(<<>>, pk.p)])

\* assert_ident!(self, token, expected_display)
assert_ident_with(p, token, expected_display) ==
    IF token.ty = "Ident"
    THEN POk(token.val, p)
    ELSE unknown_token_with(p, token, expected_display)

\* assert_ident!(self, expected_display)
assert_ident(p, expected_display) ==
    With([c \in {consume(p)} |-> IF ~c.ok THEN c ELSE
    assert_ident_with(c.p, c.val, expected_display)])

\* assert_ident_or_underscore!(self, token)
assert_ident_or_underscore_with(p, token) ==
    CASE token.ty = "Ident" -> POk(<<token.val>>, p)
      [] token.ty = "Underscore" -> POk(<<>>, p)
      [] OTHER -> unknown_token_with(p, token, "<pattern>")

\* <Type as FromStr>::from_str on the text of an identifier; "" stands for Err
Type_from_str(s) ==
    CASE s = <<"i", "3", "2">> -> "I32"
      [] s = <<"f", "6", "4">> -> "F64"
      [] s = <<"b", "o", "o", "l">> -> "Bool"
      [] s = <<"(", ")">> -> "Unit"
      [] OTHER -> ""

\* TypeASTMetaNode::new
TypeASTMetaNode_new(ty, span) == [node |-> "Type", ty |-> ty, span |-> span]

\* the first set of an expression, as parse_call_params and parse_return
\* spell it out
ExprFirst ==
    {"Return", "Minus", "Not", "IntLit", "FloatLit", "BoolLit", "LPar",
     "Underscore", "LBra", "If", "Unsafe", "Ident", "Loop", "While"}

----------------------------------------------------------------------------
(* Production rules (src/src/parser/productions.rs).  Every rule takes the *)
(* parser and returns POk(node, parser) or PErr(error, parser); `?` is the *)
(* early return IF ~r.ok THEN r.                                            *)

RECURSIVE parse_items_loop(_, _)
RECURSIVE parse_func_params(_)
RECURSIVE parse_extern_items(_)
RECURSIVE parse_stmts(_)
RECURSIVE parse_call_params(_)
RECURSIVE parse_item(_)
RECURSIVE parse_func(_)
RECURSIVE parse_func_proto(_)
RECURSIVE parse_func_params_loop(_, _)
RECURSIVE parse_param(_)
RECURSIVE parse_item_assignment(_)
RECURSIVE parse_static(_, _)
RECURSIVE parse_extern(_)
RECURSIVE parse_extern_items_loop(_, _)
RECURSIVE parse_extern_func(_)
RECURSIVE parse_let_stmt(_)
RECURSIVE parse_expr_stmt(_)
RECURSIVE parse_expr(_)
RECURSIVE parse_expr_wo_block(_)
RECURSIVE parse_expr_wo_block_(_)
RECURSIVE parse_expr_w_block(_)
RECURSIVE parse_path_or_call_expr(_)
RECURSIVE parse_block_expr(_)
RECURSIVE parse_stmts_loop(_, _)
RECURSIVE parse_operator_expr(_)
RECURSIVE parse_grouped_expr_or_unit_lit(_)
RECURSIVE parse_call_params_loop(_, _)
RECURSIVE parse_loop_expr(_)
RECURSIVE parse_inf_loop_expr(_)
RECURSIVE parse_pred_loop_expr(_)
RECURSIVE parse_if_expr(_)
RECURSIVE parse_else_expr(_)
RECURSIVE parse_unsafe_expr(_)
RECURSIVE parse_return(_)
RECURSIVE parse_op_parse(_, _)
RECURSIVE parse_op_parse_tail(_, _, _)
RECURSIVE op10_parse(_)
RECURSIVE op10_parse_tail(_, _)
RECURSIVE op11_parse(_)
RECURSIVE parse_negation(_, _, _)

\* Parser::parse_type
parse_type(p) ==
    With([c \in {consume(p)} |-> IF ~c.ok THEN c ELSE
    LET token == c.val
        ty == Type_from_str(token.val)
    IN CASE token.ty = "Ident" ->
              IF ty /= ""
              THEN POk(TypeASTMetaNode_new(ty, token.span), c.p)
              ELSE unknown_token_with(c.p, token, "<type>")
         [] token.ty = "LPar" ->
              With([rpar \in {assert_token(c.p, {"RPar"}, "')'")} |->
              IF ~rpar.ok THEN rpar ELSE
              POk(TypeASTMetaNode_new("Unit", Span_new(token.span.start, rpar.val.end)),
                  rpar.p)])
         [] OTHER -> unknown_token_with(c.p, token, "<type>")])

\* Parser::parse_mut
parse_mut(p) ==
    With([pk \in {peek(p)} |-> IF ~pk.ok THEN pk ELSE
    IF pk.val.ty = "Mut"
    THEN With([c \in {consume(pk.p)} |->
         IF ~c.ok THEN PErr(Panic("Mut token should be present."), c.p)
         ELSE POk(TRUE, c.p)])
    ELSE POk(FALSE, pk.p)])

\* Parser::parse_func_ret_ty
parse_func_ret_ty(p) ==
    With([pk \in {peek(p)} |-> IF ~pk.ok THEN pk ELSE
    CASE pk.val.ty \in {"Semi", "LBra"} -> POk(<<>>, pk.p)
      [] pk.val.ty = "Arrow" ->
           With([c \in {consume(pk.p)} |->
           IF ~c.ok THEN PErr(Panic("Arrow token should be present."), c.p) ELSE
           With([ty \in {parse_type(c.p)} |-> IF ~ty.ok THEN ty ELSE
           POk(<<ty.val>>, ty.p)])])
      [] OTHER -> unknown_token(pk.p, "'->', ';', '{'")])

\* a parse_items that consumes the EOF token it stops at
parse_items_loop_taking_eof(p, result) ==
    With([pk \in {peek(p)} |-> IF ~pk.ok THEN pk ELSE
    CASE pk.val.ty \in {"Fn", "Static", "Extern"} ->
           With([item \in {parse_item(pk.p)} |-> IF ~item.ok THEN item ELSE
           parse_items_loop(item.p, Append(result, item.val))])
      [] pk.val.ty = "EOF" ->
           With([c \in {consume(pk.p)} |-> POk(result, c.p)])
      [] OTHER -> unknown_token(pk.p, "<item>")])

\* Parser::parse_items: the loop, with the items parsed so far
parse_items_loop(p, result) ==
    With([pk \in {peek(p)} |-> IF ~pk.ok THEN pk ELSE
    CASE pk.val.ty \in {"Fn", "Static", "Extern"} ->
           With([item \in {parse_item(pk.p)} |-> IF ~item.ok THEN item ELSE
           parse_items_loop(item.p, Append(result, item.val))])
      [] pk.val.ty = "EOF" -> POk(result, pk.p)
      [] OTHER -> unknown_token(pk.p, "<item>")])

\* Parser::parse_items
parse_items(p) == parse_items_loop(p, <<>>)

\* Parser::parse_item
parse_item(p) ==
    With([pk \in {peek(p)} |-> IF ~pk.ok THEN pk ELSE
    CASE pk.val.ty = "Fn" -> parse_func(pk.p)
      [] pk.val.ty = "Static" -> parse_static(pk.p, FALSE)
      [] pk.val.ty = "Extern" -> parse_extern(pk.p)
      [] OTHER -> unknown_token(pk.p, "<item>")])

\* Parser::parse_func
parse_func(p) ==
    With([proto \in {parse_func_proto(p)} |-> IF ~proto.ok THEN proto ELSE
    With([body \in {parse_block_expr(proto.p)} |-> IF ~body.ok THEN body ELSE
    POk([node |-> "Func", proto |-> proto.val, body |-> body.val,
         span |-> Span_new(proto.val.span.start, body.val.span.end)], body.p)])])

\* Parser::parse_func_proto
parse_func_proto(p) ==
    With([fn \in {assert_token(p, {"Fn"}, "'fn'")} |-> IF ~fn.ok THEN fn ELSE
    With([ident \in {assert_ident(fn.p, "<ident>")} |-> IF ~ident.ok THEN ident ELSE
    With([lpar \in {assert_token(ident.p, {"LPar"}, "'('")} |-> IF ~lpar.ok THEN lpar ELSE
    With([params \in {parse_func_params(lpar.p)} |-> IF ~params.ok THEN params ELSE
    With([rpar \in {assert_token(params.p, {"RPar"}, "')'")} |-> IF ~rpar.ok THEN rpar ELSE
    With([ret_ty \in {parse_func_ret_ty(rpar.p)} |-> IF ~ret_ty.ok THEN ret_ty ELSE
    LET end_pos == IF ret_ty.val /= <<>> THEN ret_ty.val[1].span.end ELSE rpar.val.end
        ty == IF ret_ty.val /= <<>> THEN ret_ty.val[1]
              ELSE TypeASTMetaNode_new("Unit", Span_new(rpar.val.end, rpar.val.end))
    IN POk([node |-> "FuncProto", name |-> ident.val, params |-> params.val,
            ret_ty |-> ty, span |-> Span_new(fn.val.start, end_pos)], ret_ty.p)])])])])])])

\* Parser::parse_func_params: the loop, with the parameters parsed so far
parse_func_params_loop(p, result) ==
    With([pk \in {peek(p)} |-> IF ~pk.ok THEN pk ELSE
    IF pk.val.ty = "RPar" THEN POk(result, pk.p) ELSE
    IF pk.val.ty \notin {"Mut", "Underscore", "Ident"}
    THEN unknown_token(pk.p, "<fn parameter>") ELSE
    With([param \in {parse_param(pk.p)} |-> IF ~param.ok THEN param ELSE
    With([pk2 \in {peek(param.p)} |-> IF ~pk2.ok THEN pk2 ELSE
    LET result1 == Append(result, param.val)
    IN CASE pk2.val.ty = "Comma" ->
              With([comma \in {assert_token(pk2.p, {"Comma"}, "','")} |->
              IF ~comma.ok THEN comma ELSE
              parse_func_params_loop(comma.p, result1)])
         [] pk2.val.ty = "RPar" -> POk(result1, pk2.p)
         [] OTHER -> unknown_token(pk2.p, "',', ')'")])])])

\* Parser::parse_func_params
parse_func_params(p) == parse_func_params_loop(p, <<>>)

\* PathASTNode::new
PathASTNode_new(path, span) == [node |-> "Path", path |-> path, span |-> span]

\* UnderscoreASTNode::new
UnderscoreASTNode_new(span) == [node |-> "Underscore", span |-> span]

\* Parser::parse_param
parse_param(p) ==
    With([mutability \in {parse_mut(p)} |-> IF ~mutability.ok THEN mutability ELSE
    With([c \in {consume(mutability.p)} |-> IF ~c.ok THEN c ELSE
    With([ident \in {assert_ident_or_underscore_with(c.p, c.val)} |->
    IF ~ident.ok THEN ident ELSE
    With([colon \in {assert_token(ident.p, {"Colon"}, "':'")} |->
    IF ~colon.ok THEN colon ELSE
    With([ty \in {parse_type(colon.p)} |-> IF ~ty.ok THEN ty ELSE
    LET ident_span == c.val.span
        assignee == IF ident.val = <<>>
                    THEN UnderscoreASTNode_new(ident_span)
                    ELSE PathASTNode_new(ident.val[1], ident_span)
    IN POk([node |-> "Param", assignee |-> assignee, ty |-> ty.val,
            mutable |-> mutability.val, span |-> ident_span], ty.p)])])])])])

\* Parser::parse_item_assignment
parse_item_assignment(p) ==
    With([pk \in {peek(p)} |-> IF ~pk.ok THEN pk ELSE
    CASE pk.val.ty = "Assign" ->
           With([c \in {consume(pk.p)} |->
           IF ~c.ok THEN PErr(Panic("Assign token should be present."), c.p) ELSE
           With([expr \in {parse_expr(c.p)} |-> IF ~expr.ok THEN expr ELSE
           POk(<<expr.val>>, expr.p)])])
      [] pk.val.ty = "Semi" -> POk(<<>>, pk.p)
      [] OTHER -> unknown_token(pk.p, "'=', ';'")])

\* a parse_static that takes every static for one of the crate
parse_static_of_crate(p, is_extern) ==
    With([static \in {assert_token(p, {"Static"}, "'static'")} |->
    IF ~static.ok THEN static ELSE
    With([mutability \in {parse_mut(static.p)} |-> IF ~mutability.ok THEN mutability ELSE
    With([ident \in {assert_ident(mutability.p, "'_', 'mut', <ident>")} |->
    IF ~ident.ok THEN ident ELSE
    With([colon \in {assert_token(ident.p, {"Colon"}, "':'")} |->
    IF ~colon.ok THEN colon ELSE
    With([ty \in {parse_type(colon.p)} |-> IF ~ty.ok THEN ty ELSE
    With([value \in {parse_item_assignment(ty.p)} |-> IF ~value.ok THEN value ELSE
    With([semi \in {assert_token(value.p, {"Semi"}, "';'")} |-> IF ~semi.ok THEN semi ELSE
    LET span == Span_new(static.val.start, semi.val.end)
        item == [node |-> "Static", name |-> ident.val, value |-> value.val,
                 ty |-> ty.val, mutable |-> mutability.val, span |-> span]
    IN IF value.val /= <<>>
       THEN POk(item, semi.p)
       ELSE POk(item,
                push_rcv_error(semi.p, SemanticError("StaticWithoutInitializer", span)))
    ])])])])])])])

\* Parser::parse_static
parse_static(p, is_extern) ==
    With([static \in {assert_token(p, {"Static"}, "'static'")} |->
    IF ~static.ok THEN static ELSE
    With([mutability \in {parse_mut(static.p)} |-> IF ~mutability.ok THEN mutability ELSE
    With([ident \in {assert_ident(mutability.p, "'_', 'mut', <ident>")} |->
    IF ~ident.ok THEN ident ELSE
    With([colon \in {assert_token(ident.p, {"Colon"}, "':'")} |->
    IF ~colon.ok THEN colon ELSE
    With([ty \in {parse_type(colon.p)} |-> IF ~ty.ok THEN ty ELSE
    With([value \in {parse_item_assignment(ty.p)} |-> IF ~value.ok THEN value ELSE
    With([semi \in {assert_token(value.p, {"Semi"}, "';'")} |-> IF ~semi.ok THEN semi ELSE
    LET span == Span_new(static.val.start, semi.val.end)
        item == [node |-> "Static", name |-> ident.val, value |-> value.val,
                 ty |-> ty.val, mutable |-> mutability.val, span |-> span]
    IN IF value.val /= <<>>
       THEN POk(item,
                IF is_extern
                THEN push_rcv_error(semi.p,
                         SemanticError("ExternStaticWithInitializer", value.val[1].span))
                ELSE semi.p)
       ELSE POk(item,
                IF ~is_extern
                THEN push_rcv_error(semi.p, SemanticError("StaticWithoutInitializer", span))
                ELSE semi.p)])])])])])])])

\* a parse_extern that takes every ABI string for a supported one
parse_extern_any_abi(p) ==
    With([extern \in {assert_token(p, {"Extern"}, "'extern'")} |->
    IF ~extern.ok THEN extern ELSE
    With([next \in {consume(extern.p)} |-> IF ~next.ok THEN next ELSE
    IF next.val.ty /= "Abi" THEN unknown_token_with(next.p, next.val, "<ABI>") ELSE
    With([lbra \in {assert_token(next.p, {"LBra"}, "'{'")} |-> IF ~lbra.ok THEN lbra ELSE
    With([items \in {parse_extern_items(lbra.p)} |-> IF ~items.ok THEN items ELSE
    With([rbra \in {assert_token(items.p, {"RBra"}, "'}'")} |-> IF ~rbra.ok THEN rbra ELSE
    POk([node |-> "Extern", abi |-> next.val.val, items |-> items.val,
         span |-> Span_new(extern.val.start, rbra.val.end)], rbra.p)])])])])])

\* Parser::parse_extern
parse_extern(p) ==
    With([extern \in {assert_token(p, {"Extern"}, "'extern'")} |->
    IF ~extern.ok THEN extern ELSE
    With([next \in {consume(extern.p)} |-> IF ~next.ok THEN next ELSE
    IF next.val.ty /= "Abi" THEN unknown_token_with(next.p, next.val, "<ABI>") ELSE
    LET abi == next.val.val
        p1 == IF abi = <<"C">> THEN next.p
              ELSE push_rcv_error(next.p, UnsupportedAbi(abi))
    IN
    With([lbra \in {assert_token(p1, {"LBra"}, "'{'")} |-> IF ~lbra.ok THEN lbra ELSE
    With([items \in {parse_extern_items(lbra.p)} |-> IF ~items.ok THEN items ELSE
    With([rbra \in {assert_token(items.p, {"RBra"}, "'}'")} |-> IF ~rbra.ok THEN rbra ELSE
    POk([node |-> "Extern", abi |-> abi, items |-> items.val,
         span |-> Span_new(extern.val.start, rbra.val.end)], rbra.p)])])])])])

\* Parser::parse_extern_items: the loop, with the items parsed so far
parse_extern_items_loop(p, result) ==
    With([pk \in {peek(p)} |-> IF ~pk.ok THEN pk ELSE
    CASE pk.val.ty = "Fn" ->
           With([func \in {parse_extern_func(pk.p)} |-> IF ~func.ok THEN func ELSE
           parse_extern_items_loop(func.p, Append(result, func.val))])
      [] pk.val.ty = "Static" ->
           With([static \in {parse_static(pk.p, TRUE)} |-> IF ~static.ok THEN static ELSE
           parse_extern_items_loop(static.p, Append(result, static.val))])
      [] pk.val.ty = "RBra" -> POk(result, pk.p)
      [] OTHER -> unknown_token(pk.p, "<item>")])

\* Parser::parse_extern_items
parse_extern_items(p) == parse_extern_items_loop(p, <<>>)

\* a parse_extern_func that takes the body without recording anything
parse_extern_func_silent(p) ==
    With([proto \in {parse_func_proto(p)} |-> IF ~proto.ok THEN proto ELSE
    With([pk \in {peek(proto.p)} |-> IF ~pk.ok THEN pk ELSE
    CASE pk.val.ty = "Semi" ->
           With([semi \in {assert_token(pk.p, {"Semi"}, "';'")} |->
           IF ~semi.ok THEN semi ELSE POk(proto.val, semi.p)])
      [] pk.val.ty = "LBra" ->
           With([body \in {parse_block_expr(pk.p)} |-> IF ~body.ok THEN body ELSE
           POk(proto.val, body.p)])
      [] OTHER -> unknown_token(pk.p, "';', '{'")])])

\* Parser::parse_extern_func
parse_extern_func(p) ==
    With([proto \in {parse_func_proto(p)} |-> IF ~proto.ok THEN proto ELSE
    With([pk \in {peek(proto.p)} |-> IF ~pk.ok THEN pk ELSE
    CASE pk.val.ty = "Semi" ->
           With([semi \in {assert_token(pk.p, {"Semi"}, "';'")} |->
           IF ~semi.ok THEN semi ELSE POk(proto.val, semi.p)])
      [] pk.val.ty = "LBra" ->
           With([body \in {parse_block_expr(pk.p)} |-> IF ~body.ok THEN body ELSE
           POk(proto.val,
               push_rcv_error(body.p,
                   SemanticError("ExternFunctionWithBody", body.val.span)))])
      [] OTHER -> unknown_token(pk.p, "';', '{'")])])

\* a parse_let_stmt that reports a missing `;` at the token found instead
parse_let_stmt_at_next(p) ==
    With([let \in {assert_token(p, {"Let"}, "'let'")} |-> IF ~let.ok THEN let ELSE
    With([mutability \in {parse_mut(let.p)} |-> IF ~mutability.ok THEN mutability ELSE
    With([ident \in {assert_ident(mutability.p, "<pattern>")} |->
    IF ~ident.ok THEN ident ELSE
    With([colon \in {assert_token(ident.p, {"Colon"}, "':'")} |->
    IF ~colon.ok THEN colon ELSE
    With([ty \in {parse_type(colon.p)} |-> IF ~ty.ok THEN ty ELSE
    With([val \in {parse_item_assignment(ty.p)} |-> IF ~val.ok THEN val ELSE
    With([semi \in {expect_token(val.p, {"Semi"})} |-> IF ~semi.ok THEN semi ELSE
    With([next \in {peek(semi.p)} |-> IF ~next.ok THEN next ELSE
    LET end_pos == IF semi.val /= <<>> THEN semi.val[1].end ELSE next.val.span.start
        p1 == IF semi.val /= <<>> THEN semi.p
              ELSE push_rcv_error(semi.p, MissingToken("Semi", end_pos))
        span == Span_new(let.val.start, end_pos)
        assignee == PathASTNode_new(ident.val, span)
    IN POk([node |-> "Let", decl |-> assignee, ty |-> ty.val, value |-> val.val,
            mutable |-> mutability.val, span |-> span], p1)])])])])])])])])

\* Parser::parse_let_stmt
parse_let_stmt(p) ==
    With([let \in {assert_token(p, {"Let"}, "'let'")} |-> IF ~let.ok THEN let ELSE
    With([mutability \in {parse_mut(let.p)} |-> IF ~mutability.ok THEN mutability ELSE
    With([ident \in {assert_ident(mutability.p, "<pattern>")} |->
    IF ~ident.ok THEN ident ELSE
    With([colon \in {assert_token(ident.p, {"Colon"}, "':'")} |->
    IF ~colon.ok THEN colon ELSE
    With([ty \in {parse_type(colon.p)} |-> IF ~ty.ok THEN ty ELSE
    With([val \in {parse_item_assignment(ty.p)} |-> IF ~val.ok THEN val ELSE
    With([semi \in {expect_token(val.p, {"Semi"})} |-> IF ~semi.ok THEN semi ELSE
    LET end_pos0 == IF val.val /= <<>> THEN val.val[1].span.end ELSE ty.val.span.end
        end_pos == IF semi.val /= <<>> THEN semi.val[1].end ELSE end_pos0
        p1 == IF semi.val /= <<>> THEN semi.p
              ELSE push_rcv_error(semi.p, MissingToken("Semi", end_pos0))
        span == Span_new(let.val.start, end_pos)
        assignee == PathASTNode_new(ident.val, span)
    IN POk([node |-> "Let", decl |-> assignee, ty |-> ty.val, value |-> val.val,
            mutable |-> mutability.val, span |-> span], p1)])])])])])])])

\* ExprStmtASTNode::new
ExprStmtASTNode_new(expr, span) == [node |-> "ExprStmt", expr |-> expr, span |-> span]

\* a parse_expr_stmt that takes a missing `;` for a present one
parse_expr_stmt_never_last(p) ==
    With([expr \in {parse_expr_wo_block(p)} |-> IF ~expr.ok THEN expr ELSE
    With([semi \in {expect_token(expr.p, {"Semi"})} |-> IF ~semi.ok THEN semi ELSE
    LET end_pos == IF semi.val /= <<>> THEN semi.val[1].end ELSE expr.val.span.end
        span == Span_new(expr.val.span.start, end_pos)
    IN POk([expr_stmt |-> ExprStmtASTNode_new(expr.val, span),
            is_last |-> FALSE], semi.p)])])

\* Parser::parse_expr_stmt; returns the pair (expr_stmt, no trailing `;`)
parse_expr_stmt(p) ==
    With([expr \in {parse_expr_wo_block(p)} |-> IF ~expr.ok THEN expr ELSE
    With([semi \in {expect_token(expr.p, {"Semi"})} |-> IF ~semi.ok THEN semi ELSE
    LET end_pos == IF semi.val /= <<>> THEN semi.val[1].end ELSE expr.val.span.end
        span == Span_new(expr.val.span.start, end_pos)
    IN POk([expr_stmt |-> ExprStmtASTNode_new(expr.val, span),
            is_last |-> semi.val = <<>>], semi.p)])])

\* Parser::parse_expr
parse_expr(p) == parse_expr_wo_block(p)

\* Parser::parse_expr_wo_block
parse_expr_wo_block(p) ==
    With([pk \in {peek(p)} |-> IF ~pk.ok THEN pk ELSE
    CASE pk.val.ty \in {"Minus", "Not", "IntLit", "FloatLit", "BoolLit", "LPar",
                        "Underscore", "LBra", "If", "Unsafe", "Ident", "Loop",
                        "While"} -> parse_operator_expr(pk.p)
      [] pk.val.ty = "Return" -> parse_return(pk.p)
      [] OTHER -> unknown_token(pk.p, "<expr>")])

\* LiteralASTNode::<T>::new; ty is the T
LiteralASTNode_new(ty, value, span) ==
    [node |-> "Literal", ty |-> ty, value |-> value, span |-> span]

\* Parser::parse_literal_expr
parse_literal_expr(p) ==
    With([c \in {consume(p)} |-> IF ~c.ok THEN c ELSE
    LET token == c.val
    IN CASE token.ty = "IntLit" -> POk(LiteralASTNode_new("I32", token.val, token.span), c.p)
         [] token.ty = "FloatLit" -> POk(LiteralASTNode_new("F64", token.val, token.span), c.p)
         [] token.ty = "BoolLit" -> POk(LiteralASTNode_new("Bool", token.val, token.span), c.p)
         [] OTHER -> unknown_token_with(c.p, token, "<literal>")])

\* Parser::parse_path_expr
parse_path_expr(p) ==
    With([c \in {consume(p)} |-> IF ~c.ok THEN c ELSE
    LET token == c.val
    IN IF token.ty = "Ident"
       THEN POk(PathASTNode_new(token.val, token.span), c.p)
       ELSE unknown_token_with(c.p, token, "<path>")])

\* Parser::parse_underscore_expr
parse_underscore_expr(p) ==
    With([span \in {assert_token(p, {"Underscore"}, "'_'")} |-> IF ~span.ok THEN span ELSE
    POk(UnderscoreASTNode_new(span.val), span.p)])

\* Parser::parse_expr_wo_block_ (the ExpressionWithoutBlock' rule)
parse_expr_wo_block_(p) ==
    With([pk \in {peek(p)} |-> IF ~pk.ok THEN pk ELSE
    CASE pk.val.ty \in {"IntLit", "FloatLit", "BoolLit"} -> parse_literal_expr(pk.p)
      [] pk.val.ty = "Ident" -> parse_path_or_call_expr(pk.p)
      [] pk.val.ty = "LPar" -> parse_grouped_expr_or_unit_lit(pk.p)
      [] pk.val.ty = "Underscore" -> parse_underscore_expr(pk.p)
      [] OTHER -> unknown_token(pk.p, "<expr>")])

\* Parser::parse_expr_w_block
parse_expr_w_block(p) ==
    With([pk \in {peek(p)} |-> IF ~pk.ok THEN pk ELSE
    CASE pk.val.ty = "LBra" -> parse_block_expr(pk.p)
      [] pk.val.ty \in {"Loop", "While"} -> parse_loop_expr(pk.p)
      [] pk.val.ty = "If" -> parse_if_expr(pk.p)
      [] pk.val.ty = "Unsafe" -> parse_unsafe_expr(pk.p)
      [] OTHER -> unknown_token(pk.p, "<expr>")])

\* Parser::parse_path_or_call_expr (the Ident' rule)
parse_path_or_call_expr(p) ==
    With([path \in {parse_path_expr(p)} |-> IF ~path.ok THEN path ELSE
    With([pk \in {peek(path.p)} |-> IF ~pk.ok THEN pk ELSE
    IF pk.val.ty = "LPar"
    THEN With([lpar \in {assert_token(pk.p, {"LPar"}, "'('")} |->
         IF ~lpar.ok THEN lpar ELSE
         With([params \in {parse_call_params(lpar.p)} |-> IF ~params.ok THEN params ELSE
         With([rpar \in {assert_token(params.p, {"RPar"}, "')'")} |->
         IF ~rpar.ok THEN rpar ELSE
         POk([node |-> "FunCall", path |-> path.val, params |-> params.val,
              span |-> Span_new(path.val.span.start, rpar.val.end)], rpar.p)])])])
    ELSE POk(path.val, pk.p)])])

\* Parser::parse_block_expr
parse_block_expr(p) ==
    With([lbra \in {assert_token(p, {"LBra"}, "'{'")} |-> IF ~lbra.ok THEN lbra ELSE
    With([stmts \in {parse_stmts(lbra.p)} |-> IF ~stmts.ok THEN stmts ELSE
    With([rbra \in {assert_token(stmts.p, {"RBra"}, "'}'")} |-> IF ~rbra.ok THEN rbra ELSE
    POk([node |-> "Block", statements |-> stmts.val.statements,
         return_expr |-> stmts.val.return_expr,
         span |-> Span_new(lbra.val.start, rbra.val.end)], rbra.p)])])])

\* Parser::parse_stmts: the loop, with the statements parsed so far
parse_stmts_loop(p, statements) ==
    With([pk \in {peek(p)} |-> IF ~pk.ok THEN pk ELSE
    CASE pk.val.ty = "Let" ->
           With([stmt \in {parse_let_stmt(pk.p)} |-> IF ~stmt.ok THEN stmt ELSE
           parse_stmts_loop(stmt.p, Append(statements, stmt.val))])
      [] pk.val.ty = "Semi" ->
           With([semi \in {assert_token(pk.p, {"Semi"}, "';'")} |->
           IF ~semi.ok THEN semi ELSE
           parse_stmts_loop(semi.p, statements)])
      [] pk.val.ty = "RBra" ->
           POk([statements |-> statements, return_expr |-> <<>>], pk.p)
      [] OTHER ->
           With([es \in {parse_expr_stmt(pk.p)} |-> IF ~es.ok THEN es ELSE
           IF es.val.is_last
           THEN POk([statements |-> statements,
                     return_expr |-> <<es.val.expr_stmt.expr>>], es.p)
           ELSE parse_stmts_loop(es.p, Append(statements, es.val.expr_stmt))])])

\* Parser::parse_stmts
parse_stmts(p) == parse_stmts_loop(p, <<>>)

\* Parser::parse_grouped_expr_or_unit_lit
parse_grouped_expr_or_unit_lit(p) ==
    With([lpar \in {assert_token(p, {"LPar"}, "'('")} |-> IF ~lpar.ok THEN lpar ELSE
    With([pk \in {peek(lpar.p)} |-> IF ~pk.ok THEN pk ELSE
    IF pk.val.ty = "RPar"
    THEN With([rpar \in {assert_token(pk.p, {"RPar"}, "')'")} |->
         IF ~rpar.ok THEN rpar ELSE
         POk(LiteralASTNode_new("Unit", <<>>, Span_new(lpar.val.start, rpar.val.end)),
             rpar.p)])
    ELSE With([expr \in {parse_expr(pk.p)} |-> IF ~expr.ok THEN expr ELSE
         With([rpar \in {assert_token(expr.p, {"RPar"}, "')'")} |->
         IF ~rpar.ok THEN rpar ELSE
         POk([node |-> "Grouped", expr |-> expr.val,
              span |-> Span_new(lpar.val.start, rpar.val.end)], rpar.p)])])])])

\* Parser::parse_call_params: the loop, with the arguments parsed so far
parse_call_params_loop(p, result) ==
    With([pk \in {peek(p)} |-> IF ~pk.ok THEN pk ELSE
    IF pk.val.ty = "RPar" THEN POk(result, pk.p) ELSE
    IF pk.val.ty \notin ExprFirst THEN unknown_token(pk.p, "<expr>") ELSE
    With([expr \in {parse_expr(pk.p)} |-> IF ~expr.ok THEN expr ELSE
    With([pk2 \in {peek(expr.p)} |-> IF ~pk2.ok THEN pk2 ELSE
    LET result1 == Append(result, expr.val)
    IN CASE pk2.val.ty = "Comma" ->
              With([comma \in {assert_token(pk2.p, {"Comma"}, "','")} |->
              IF ~comma.ok THEN comma ELSE
              parse_call_params_loop(comma.p, result1)])
         [] pk2.val.ty = "RPar" -> POk(result1, pk2.p)
         [] OTHER -> unknown_token(pk2.p, "',', ')'")])])])

\* Parser::parse_call_params
parse_call_params(p) == parse_call_params_loop(p, <<>>)

\* Parser::parse_loop_expr
parse_loop_expr(p) ==
    With([pk \in {peek(p)} |-> IF ~pk.ok THEN pk ELSE
    CASE pk.val.ty = "Loop" -> parse_inf_loop_expr(pk.p)
      [] pk.val.ty = "While" -> parse_pred_loop_expr(pk.p)
      [] OTHER -> unknown_token(pk.p, "<loop expr>")])

\* Parser::parse_inf_loop_expr
parse_inf_loop_expr(p) ==
    With([loop \in {assert_token(p, {"Loop"}, "'loop'")} |-> IF ~loop.ok THEN loop ELSE
    With([body \in {parse_block_expr(loop.p)} |-> IF ~body.ok THEN body ELSE
    POk([node |-> "InfLoop", body |-> body.val,
         span |-> Span_new(loop.val.start, body.val.span.end)], body.p)])])

\* Parser::parse_pred_loop_expr
parse_pred_loop_expr(p) ==
    With([while \in {assert_token(p, {"While"}, "'while'")} |-> IF ~while.ok THEN while ELSE
    With([condition \in {parse_expr(while.p)} |-> IF ~condition.ok THEN condition ELSE
    With([body \in {parse_block_expr(condition.p)} |-> IF ~body.ok THEN body ELSE
    POk([node |-> "While", condition |-> condition.val, body |-> body.val,
         span |-> Span_new(while.val.start, body.val.span.end)], body.p)])])])

\* Parser::parse_if_expr
parse_if_expr(p) ==
    With([if \in {assert_token(p, {"If"}, "'if'")} |-> IF ~if.ok THEN if ELSE
    With([condition \in {parse_expr(if.p)} |-> IF ~condition.ok THEN condition ELSE
    With([then_block \in {parse_block_expr(condition.p)} |->
    IF ~then_block.ok THEN then_block ELSE
    With([else_expr \in {parse_else_expr(then_block.p)} |->
    IF ~else_expr.ok THEN else_expr ELSE
    LET end_pos == IF else_expr.val.kind = "None"
                   THEN then_block.val.span.end
                   ELSE else_expr.val.node.span.end
    IN POk([node |-> "If", condition |-> condition.val, then_block |-> then_block.val,
            else_expr |-> else_expr.val,
            span |-> Span_new(if.val.start, end_pos)], else_expr.p)])])])])

\* Parser::parse_else_expr (the IfExpressionTail' and ElseExpression' rules)
parse_else_expr(p) ==
    With([pk \in {peek(p)} |-> IF ~pk.ok THEN pk ELSE
    CASE pk.val.ty = "Else" ->
           With([else \in {assert_token(pk.p, {"Else"}, "'else'")} |->
           IF ~else.ok THEN else ELSE
           With([pk2 \in {peek(else.p)} |-> IF ~pk2.ok THEN pk2 ELSE
           CASE pk2.val.ty = "If" ->
                  With([if_node \in {parse_if_expr(pk2.p)} |->
                  IF ~if_node.ok THEN if_node ELSE
                  POk([kind |-> "ElseIf", node |-> if_node.val], if_node.p)])
             [] pk2.val.ty = "LBra" ->
                  With([block \in {parse_block_expr(pk2.p)} |->
                  IF ~block.ok THEN block ELSE
                  POk([kind |-> "Else", node |-> block.val], block.p)])
             [] OTHER -> unknown_token(pk2.p, "'if', '{'")])])
      [] pk.val.ty \in {"RPar", "Comma", "LBra", "As", "Asterisk", "Div", "Mod",
                        "Plus", "Minus", "BitAnd", "BitXor", "BitOr", "Eq", "Ne",
                        "Lt", "Gt", "Le", "Ge", "And", "Or", "Assign", "RBra",
                        "Semi"} ->
           POk([kind |-> "None"], pk.p)
      [] OTHER ->
           unknown_token(pk.p, "'else', ')', ',', '{', 'as', <operator>, '=', '}', ';'")])

\* Parser::parse_unsafe_expr
parse_unsafe_expr(p) ==
    With([unsafe \in {assert_token(p, {"Unsafe"}, "'unsafe'")} |->
    IF ~unsafe.ok THEN unsafe ELSE
    With([block \in {parse_block_expr(unsafe.p)} |-> IF ~block.ok THEN block ELSE
    POk([node |-> "UnsafeBlock", block |-> block.val,
         span |-> Span_new(unsafe.val.start, block.val.span.end)], block.p)])])

\* Parser::parse_return
parse_return(p) ==
    With([span \in {assert_token(p, {"Return"}, "'return'")} |-> IF ~span.ok THEN span ELSE
    With([pk \in {peek(span.p)} |-> IF ~pk.ok THEN pk ELSE
    CASE pk.val.ty \in ExprFirst ->
           With([expr \in {parse_expr(pk.p)} |-> IF ~expr.ok THEN expr ELSE
           POk([node |-> "Return", value |-> <<expr.val>>,
                span |-> Span_new(span.val.start, expr.val.span.end)], expr.p)])
      [] pk.val.ty \in {"RPar", "Comma", "RBra", "Semi"} ->
           POk([node |-> "Return", value |-> <<>>, span |-> span.val], pk.p)
      [] OTHER -> unknown_token(pk.p, "<expr>, ';'")])])


----------------------------------------------------------------------------
(* Operators (src/src/parser/productions/ops.rs).  The modules op1 .. op9  *)
(* are the nine instances of the macro parse_op!; parse_op_parse(n, p) is  *)
(* opn::parse and parse_op_parse_tail(n, p, lhs) is opn::parse_tail.       *)

\* the constructors of mod ctr: the node `name` builds from lhs, rhs and span
ctr(name, lhs, rhs, span) ==
    CASE name = "assign" ->
           [node |-> "Assign", assignee |-> lhs, value |-> rhs, span |-> span]
      [] name = "lazy_or" ->
           [node |-> "LazyBool", operator |-> "Or", lhs |-> lhs, rhs |-> rhs, span |-> span]
      [] name = "lazy_and" ->
           [node |-> "LazyBool", operator |-> "And", lhs |-> lhs, rhs |-> rhs, span |-> span]
      [] name = "eq" ->
           [node |-> "Comp", operator |-> "Eq", lhs |-> lhs, rhs |-> rhs, span |-> span]
      [] name = "ne" ->
           [node |-> "Comp", operator |-> "Ne", lhs |-> lhs, rhs |-> rhs, span |-> span]
      [] name = "gt" ->
           [node |-> "Comp", operator |-> "Gt", lhs |-> lhs, rhs |-> rhs, span |-> span]
      [] name = "lt" ->
           [node |-> "Comp", operator |-> "Lt", lhs |-> lhs, rhs |-> rhs, span |-> span]
      [] name = "ge" ->
           [node |-> "Comp", operator |-> "Ge", lhs |-> lhs, rhs |-> rhs, span |-> span]
      [] name = "le" ->
           [node |-> "Comp", operator |-> "Le", lhs |-> lhs, rhs |-> rhs, span |-> span]
      [] name = "bit_or" ->
           [node |-> "Arith", operator |-> "BitOr", lhs |-> lhs, rhs |-> rhs, span |-> span]
      [] name = "bit_xor" ->
           [node |-> "Arith", operator |-> "BitXor", lhs |-> lhs, rhs |-> rhs, span |-> span]
      [] name = "bit_and" ->
           [node |-> "Arith", operator |-> "BitAnd", lhs |-> lhs, rhs |-> rhs, span |-> span]
      [] name = "add" ->
           [node |-> "Arith", operator |-> "Add", lhs |-> lhs, rhs |-> rhs, span |-> span]
      [] name = "sub" ->
           [node |-> "Arith", operator |-> "Sub", lhs |-> lhs, rhs |-> rhs, span |-> span]
      [] name = "mul" ->
           [node |-> "Arith", operator |-> "Mul", lhs |-> lhs, rhs |-> rhs, span |-> span]
      [] name = "div" ->
           [node |-> "Arith", operator |-> "Div", lhs |-> lhs, rhs |-> rhs, span |-> span]
      [] name = "rem" ->
           [node |-> "Arith", operator |-> "Rem", lhs |-> lhs, rhs |-> rhs, span |-> span]

\* the arguments of the nine parse_op! instances: the operators of the level
\* (token type, expected, constructor), the tokens on which the tail is
\* empty, and the display of what was expected
op1 == [ops |-> <<[op |-> "Assign", expected |-> "'='", ctr |-> "assign"]>>,
        empty |-> {"LBra", "RPar", "Comma", "RBra", "Semi"},
        expected_display |-> "'=', '{', '(', ',', '}', ';'"]

op2 == [ops |-> <<[op |-> "Or", expected |-> "'||'", ctr |-> "lazy_or"]>>,
        empty |-> {"LBra", "RPar", "Comma", "RBra", "Semi", "Assign"},
        expected_display |-> "'||', '=', '{', '(', ',', '}', ';'"]

op3 == [ops |-> <<[op |-> "And", expected |-> "'&&'", ctr |-> "lazy_and"]>>,
        empty |-> {"LBra", "RPar", "Comma", "RBra", "Semi", "Assign", "Or"},
        expected_display |-> "<operator>, '=', '{', '(', ',', '}', ';'"]

op4 == [ops |-> <<[op |-> "Eq", expected |-> "'=='", ctr |-> "eq"],
                  [op |-> "Ne", expected |-> "'!='", ctr |-> "ne"],
                  [op |-> "Gt", expected |-> "'>'", ctr |-> "gt"],
                  [op |-> "Lt", expected |-> "'<'", ctr |-> "lt"],
                  [op |-> "Ge", expected |-> "'>='", ctr |-> "ge"],
                  [op |-> "Le", expected |-> "'<='", ctr |-> "le"]>>,
        empty |-> {"LBra", "RPar", "Comma", "RBra", "Semi", "Assign", "Or", "And"},
        expected_display |-> "<operator>, '=', '{', '(', ',', '}', ';'"]

op5 == [ops |-> <<[op |-> "BitOr", expected |-> "'|'", ctr |-> "bit_or"]>>,
        empty |-> {"LBra", "RPar", "Comma", "RBra", "Semi", "Assign", "Or", "And",
                   "Eq", "Ne", "Gt", "Lt", "Ge", "Le"},
        expected_display |-> "<operator>, '=', '{', '(', ',', '}', ';'"]

op6 == [ops |-> <<[op |-> "BitXor", expected |-> "'^'", ctr |-> "bit_xor"]>>,
        empty |-> {"LBra", "RPar", "Comma", "RBra", "Semi", "Assign", "Or", "And",
                   "Eq", "Ne", "Gt", "Lt", "Ge", "Le", "BitOr"},
        expected_display |-> "<operator>, '=', '{', '(', ',', '}', ';'"]

op7 == [ops |-> <<[op |-> "BitAnd", expected |-> "'&'", ctr |-> "bit_and"]>>,
        empty |-> {"LBra", "RPar", "Comma", "RBra", "Semi", "Assign", "Or", "And",
                   "Eq", "Ne", "Gt", "Lt", "Ge", "Le", "BitOr", "BitXor"},
        expected_display |-> "<operator>, '=', '{', '(', ',', '}', ';'"]

op8 == [ops |-> <<[op |-> "Plus", expected |-> "'+'", ctr |-> "add"],
                  [op |-> "Minus", expected |-> "'-'", ctr |-> "sub"]>>,
        empty |-> {"LBra", "RPar", "Comma", "RBra", "Semi", "Assign", "Or", "And",
                   "Eq", "Ne", "Gt", "Lt", "Ge", "Le", "BitOr", "BitXor", "BitAnd"},
        expected_display |-> "<operator>, '=', '{', '(', ',', '}', ';'"]

op9 == [ops |-> <<[op |-> "Asterisk", expected |-> "'*'", ctr |-> "mul"],
                  [op |-> "Div", expected |-> "'/'", ctr |-> "div"],
                  [op |-> "Mod", expected |-> "'%'", ctr |-> "rem"]>>,
        empty |-> {"LBra", "RPar", "Comma", "RBra", "Semi", "Assign", "Or", "And",
                   "Eq", "Ne", "Gt", "Lt", "Ge", "Le", "BitOr", "BitXor", "BitAnd",
                   "Plus", "Minus"},
        expected_display |-> "<operator>, '=', '{', '(', ',', '}', ';'"]

\* the instances with the additive and the multiplicative level swapped
op_level_swapped(n) ==
    CASE n = 1 -> op1 [] n = 2 -> op2 [] n = 3 -> op3 [] n = 4 -> op4 [] n = 5 -> op5
      [] n = 6 -> op6 [] n = 7 -> op7 [] n = 8 -> op9 [] n = 9 -> op8

\* the instance opn
op_level(n) ==
    CASE n = 1 -> op1 [] n = 2 -> op2 [] n = 3 -> op3 [] n = 4 -> op4 [] n = 5 -> op5
      [] n = 6 -> op6 [] n = 7 -> op7 [] n = 8 -> op8 [] n = 9 -> op9

\* $next::parse of the instance opn: op(n+1)::parse, and op10::parse for op9
op_next_parse(n, p) == IF n < 9 THEN parse_op_parse(n + 1, p) ELSE op10_parse(p)

\* parse_op!: fn parse
parse_op_parse(n, p) ==
    With([lhs \in {op_next_parse(n, p)} |-> IF ~lhs.ok THEN lhs ELSE
    parse_op_parse_tail(n, lhs.p, lhs.val)])

\* a parse_tail that parses its right operand at its own level
parse_op_parse_tail_right(n, p, lhs) ==
    With([pk \in {peek(p)} |-> IF ~pk.ok THEN pk ELSE
    LET level == op_level(n)
        matching == {i \in 1..Len(level.ops) : level.ops[i].op = pk.val.ty}
        arm == level.ops[CHOOSE i \in matching : TRUE]
    IN IF matching /= {}
       THEN With([tok \in {assert_token(pk.p, {arm.op}, arm.expected)} |->
            IF ~tok.ok THEN tok ELSE
            With([rhs \in {parse_op_parse(n, tok.p)} |-> IF ~rhs.ok THEN rhs ELSE
            LET span == Span_new(lhs.span.start, rhs.val.span.end)
            IN POk(ctr(arm.ctr, lhs, rhs.val, span), rhs.p)])])
       ELSE IF pk.val.ty \in level.empty THEN POk(lhs, pk.p)
       ELSE unknown_token(pk.p, level.expected_display)])

\* parse_op!: fn parse_tail
parse_op_parse_tail(n, p, lhs) ==
    With([pk \in {peek(p)} |-> IF ~pk.ok THEN pk ELSE
    LET level == op_level(n)
        matching == {i \in 1..Len(level.ops) : level.ops[i].op = pk.val.ty}
        arm == level.ops[CHOOSE i \in matching : TRUE]
    IN IF matching /= {}
       THEN With([tok \in {assert_token(pk.p, {arm.op}, arm.expected)} |->
            IF ~tok.ok THEN tok ELSE
            With([rhs \in {op_next_parse(n, tok.p)} |-> IF ~rhs.ok THEN rhs ELSE
            LET span == Span_new(lhs.span.start, rhs.val.span.end)
            IN parse_op_parse_tail(n, rhs.p, ctr(arm.ctr, lhs, rhs.val, span))])])
       ELSE IF pk.val.ty \in level.empty THEN POk(lhs, pk.p)
       ELSE unknown_token(pk.p, level.expected_display)])

\* ops::parse_ops
parse_ops(p) == parse_op_parse(1, p)

\* Parser::parse_operator_expr
parse_operator_expr(p) == parse_ops(p)

\* op10::parse (the Expr10 rule)
op10_parse(p) ==
    With([lhs \in {op11_parse(p)} |-> IF ~lhs.ok THEN lhs ELSE
    op10_parse_tail(lhs.p, lhs.val)])

\* op10::parse_tail (the Expr10' rule)
op10_parse_tail(p, lhs) ==
    With([pk \in {peek(p)} |-> IF ~pk.ok THEN pk ELSE
    CASE pk.val.ty = "As" ->
           With([as \in {assert_token(pk.p, {"As"}, "'as'")} |-> IF ~as.ok THEN as ELSE
           With([ty \in {parse_type(as.p)} |-> IF ~ty.ok THEN ty ELSE
           LET span == Span_new(lhs.span.start, ty.val.span.end)
           IN op10_parse_tail(ty.p, [node |-> "TypeCast", expr |-> lhs,
                                     ty |-> ty.val, span |-> span])])])
      [] pk.val.ty \in {"LBra", "RPar", "Comma", "RBra", "Semi", "Assign", "Or",
                        "And", "Eq", "Ne", "Gt", "Lt", "Ge", "Le", "BitOr",
                        "BitXor", "BitAnd", "Plus", "Minus", "Asterisk", "Div",
                        "Mod"} ->
           POk(lhs, pk.p)
      [] OTHER -> unknown_token(pk.p, "<operator>, '=', '{', '(', ',', '}', ';', 'as'")])

\* op11::parse (the Expr11 rule)
op11_parse(p) ==
    With([pk \in {peek(p)} |-> IF ~pk.ok THEN pk ELSE
    CASE pk.val.ty = "Minus" ->
           With([minus \in {assert_token(pk.p, {"Minus"}, "'-'")} |->
           IF ~minus.ok THEN minus ELSE
           parse_negation(minus.p, "Neg", minus.val.start)])
      [] pk.val.ty = "Not" ->
           With([not \in {assert_token(pk.p, {"Not"}, "'!'")} |->
           IF ~not.ok THEN not ELSE
           parse_negation(not.p, "Not", not.val.start)])
      [] pk.val.ty \in {"IntLit", "FloatLit", "BoolLit", "RPar", "Underscore",
                        "Ident"} ->
           parse_expr_wo_block_(pk.p)
      [] pk.val.ty = "LPar" -> parse_grouped_expr_or_unit_lit(pk.p)
      [] pk.val.ty \in {"LBra", "If", "Unsafe", "Loop", "While"} ->
           parse_expr_w_block(pk.p)
      [] OTHER -> unknown_token(pk.p, "'!', '-', <expr>")])

\* op11::parse_negation (the NegationExpression rule)
parse_negation(p, op, start_pos) ==
    With([expr \in {op11_parse(p)} |-> IF ~expr.ok THEN expr ELSE
    POk([node |-> "Neg", operator |-> op, expr |-> expr.val,
         span |-> Span_new(start_pos, expr.val.span.end)], expr.p)])

----------------------------------------------------------------------------
(* Parser::parse_crate and Parser::parse *)

\* a parse_crate that does not look at the accumulator
parse_crate_unchecked(p) ==
    With([items \in {parse_items(p)} |->
    With([r \in {IF ~items.ok THEN items ELSE
                 With([c \in {consume(items.p)} |->
                 POk([node |-> "Crate", items |-> items.val,
                      span |-> Span_new(Position_new, c.val.span.end)], c.p)])} |->
    [ok |-> r.ok, val |-> IF r.ok THEN r.val ELSE <<>>,
     err |-> IF r.ok THEN <<>> ELSE r.err, p |-> r.p, items |-> items]])])

\* Parser::parse_crate.  The result carries, for the properties only, what
\* parse_items returned (items), which the Rust code drops on an error.
parse_crate(p) ==
    With([items \in {parse_items(p)} |->
    With([r \in {IF ~items.ok THEN items ELSE
                 IF items.p.errors /= <<>>
                 THEN PErr(Aggregated(items.p.errors), items.p) ELSE
                 With([c \in {consume(items.p)} |->
                 IF ~c.ok THEN PErr(Panic("No finishing EOF token found."), c.p) ELSE
                 IF ~is_eof(c.val) THEN PErr(Panic("Unexpected token - expected EOF."), c.p)
                 ELSE
                 LET end_pos == c.val.span.end
                     span == Span_new(Position_new, end_pos)
                 IN POk([node |-> "Crate", items |-> items.val, span |-> span], c.p)])} |->
    [ok |-> r.ok, val |-> IF r.ok THEN r.val ELSE <<>>,
     err |-> IF r.ok THEN <<>> ELSE r.err, p |-> r.p, items |-> items]])])

\* Parser::parse; Crate::new boxes the root and changes nothing else
Parser_parse(p) == parse_crate(p)

----------------------------------------------------------------------------
(* Expression capabilities (src/src/ast/expr.rs and the impl ExprASTNode   *)
(* of every node type under src/src/ast/expr/), and code generation of an  *)
(* assignment (src/src/ast/expr/assign.rs).                                *)

\* the node types whose impl ExprASTNode returns Some(self) from
\* try_as_value only: assign.rs, block.rs, cast.rs, fun_call.rs, grouped.rs,
\* if.rs, literal.rs, loop/inf_loop.rs, loop/while.rs, operator.rs (Arith,
\* Comp, LazyBool), operator/neg.rs, return.rs, unsafe_block.rs
ValueOnlyNodes ==
    {"Assign", "Block", "TypeCast", "FunCall", "Grouped", "If", "Literal", "InfLoop",
     "While", "Arith", "Comp", "LazyBool", "Neg", "Return", "UnsafeBlock"}

\* a try_as_place that also answers for literals
try_as_place_literal(e) == IF e.node \in {"Path", "Literal"} THEN <<e>> ELSE <<>>

\* ExprASTNode::try_as_place
try_as_place(e) ==
    CASE e.node = "Path" -> <<e>>
      [] e.node = "Underscore" -> <<>>
      [] e.node \in ValueOnlyNodes -> <<>>

\* ExprASTNode::try_as_value
try_as_value(e) ==
    CASE e.node = "Path" -> <<e>>
      [] e.node = "Underscore" -> <<>>
      [] e.node \in ValueOnlyNodes -> <<e>>

\* ExprASTNode::try_as_assignee
try_as_assignee(e) ==
    CASE e.node = "Path" -> <<e>>
      [] e.node = "Underscore" -> <<e>>
      [] e.node \in ValueOnlyNodes -> <<>>

\* AssigneeExprASTNode::pattern
pattern(e) ==
    CASE e.node = "Path" -> <<e.path>>
      [] e.node = "Underscore" -> <<>>

\* AssignASTNode::new
AssignASTNode_new(assignee, value, span) ==
    [node |-> "Assign", assignee |-> assignee, value |-> value, span |-> span]

\* codegen::Result: Ok with the kind of LLVM value, Err with the error, or a
\* panic
CgOk(value) == [kind |-> "Ok", value |-> value]
CgErr(error) == [kind |-> "Err", error |-> error]
CgPanic(msg) == [kind |-> "Panic", message |-> msg]

\* the kinds of AnyValueEnum that BasicValueEnum::try_from accepts; a
\* StructValue0 is a struct value without fields, the unit value
BasicValues == {"IntValue", "FloatValue", "PointerValue", "StructValue0"}

\* what code_gen of an expression can return to AssignASTNode::code_gen
code_gen_outcomes(e) ==
    CASE e.node \in {"Path", "Underscore", "If"} -> {CgPanic("not yet implemented")}
      [] e.node = "Literal" ->
           (CASE e.ty \in {"I32", "Bool"} -> {CgOk("IntValue")}
              [] e.ty = "Unit" -> {CgOk("StructValue0")}
              [] e.ty = "F64" -> {CgPanic("not yet implemented")})
      [] OTHER ->
           {CgOk(v) : v \in BasicValues \cup {"FunctionValue"}}
           \cup {CgErr([kind |-> "CodeGenError", span |-> e.span])}

\* what the symbol table holds for a name: nothing, a pointer, another value
SymbolValues == {"None", "PointerValue", "IntValue"}

\* CodeGen::code_gen for AssignASTNode, given what code_gen of the value
\* returned, what the symbol table holds for the assignee, and whether
\* build_store succeeds
AssignASTNode_code_gen(self, value, symbol, stored) ==
    LET assignment_result == CgOk("StructValue0")
        assignee == try_as_assignee(self.assignee)
    IN IF value.kind /= "Ok" THEN value
       ELSE IF value.value \notin BasicValues
       THEN CgErr([kind |-> "InvalidLLVMValueType",
                   message |-> "The RHS of the assignment must be a basic value",
                   span |-> self.span])
       ELSE IF assignee = <<>>
       THEN CgErr([kind |-> "WrongExpressionKind",
                   message |-> "Expected an assignee expression",
                   span |-> self.span])
       ELSE IF pattern(assignee[1]) = <<>> THEN assignment_result
       ELSE IF symbol = "None"
       THEN CgErr([kind |-> "MissingSymbol", symbol |-> pattern(assignee[1])[1],
                   span |-> self.assignee.span])
       ELSE IF symbol /= "PointerValue"
       THEN CgErr([kind |-> "InvalidLLVMValueType", message |-> "Expected a pointer value",
                   span |-> self.assignee.span])
       ELSE IF value.value = "StructValue0" THEN assignment_result
       ELSE IF ~stored THEN CgErr([kind |-> "BuilderError"])
       ELSE assignment_result

----------------------------------------------------------------------------
(* Pulling tokens from a Lexer directly, as the loop in the documentation  *)
(* of Lexer does, but without stopping at the EOF token.                   *)

\* the characters the files of SpecLex are made of
LexChars == {" ", "\n", "/", "=", "a", "1", ".", "\""}

\* the longest file of SpecLex
MaxChars == 4

\* pulls made after the file is exhausted
ExtraPulls == 3

LexSources == UNION {[1..n -> LexChars] : n \in 0..MaxChars}

NoResult == [kind |-> "NoResult"]
NoQuery == [kind |-> "NoQuery"]

InitLex ==
    /\ source \in LexSources
    /\ pc = "lexing"
    /\ lexer = Lexer_new(source)
    /\ pulled = <<>>
    /\ outcome = NoResult
    /\ query = NoQuery
    /\ plan = [kind |-> "text"]

\* one call of lexer.next() by the caller
LexerNext ==
    /\ pc = "lexing"
    /\ Len(pulled) < Len(source) + ExtraPulls
    /\ LET r == Lexer_next(lexer)
       IN /\ lexer' = r.lx
          /\ pulled' = Append(pulled, r.out)
    /\ UNCHANGED <<source, pc, outcome, query, plan>>

NextLex == LexerNext

SpecLex == InitLex /\ [][NextLex]_vars

----------------------------------------------------------------------------
(* Parsing a file: Parser::new(path) and then parse().                     *)

NoLexer == [kind |-> "NoLexer"]

\* self.parse() on a fresh parser of the file
Parse ==
    /\ pc = "new"
    /\ outcome' = Parser_parse(Parser_new(source))
    /\ pc' = "parsed"
    /\ UNCHANGED <<source, lexer, pulled, query, plan>>

(* s[1] \o s[2] \o ... *)
RECURSIVE Concat(_)
Concat(s) == IF s = <<>> THEN <<>> ELSE Head(s) \o Concat(Tail(s))

----------------------------------------------------------------------------
(* SpecItems: files made of whole items, some with recoverable defects,    *)
(* some with a fatal one, cut off after any number of characters.          *)

\* the items the files of SpecItems are made of: the text of each, the
\* recoverable defects written into it (in the order the parser meets them),
\* and whether it holds a fatal defect

ItemTexts ==
    <<(* fn f(){} *)
       <<"f", "n", " ", "f", "(", ")", "{", "}">>,
      (* static X:i32=1; *)
       <<"s", "t", "a", "t", "i", "c", " ", "X", ":", "i", "3", "2", "=", "1", ";">>,
      (* static X:i32; *)
       <<"s", "t", "a", "t", "i", "c", " ", "X", ":", "i", "3", "2", ";">>,
      (* extern "C"{static X:i32;fn f();} *)
       <<"e", "x", "t", "e", "r", "n", " ", "\"", "C", "\"", "{", "s", "t", "a", "t", "i", "c", " ", "X", ":", "i", "3", "2", ";", "f", "n", " ", "f", "(", ")", ";", "}">>,
      (* extern "C"{fn f(){}} *)
       <<"e", "x", "t", "e", "r", "n", " ", "\"", "C", "\"", "{", "f", "n", " ", "f", "(", ")", "{", "}", "}">>,
      (* extern "C"{static X:i32=1;} *)
       <<"e", "x", "t", "e", "r", "n", " ", "\"", "C", "\"", "{", "s", "t", "a", "t", "i", "c", " ", "X", ":", "i", "3", "2", "=", "1", ";", "}">>,
      (* extern "D"{} *)
       <<"e", "x", "t", "e", "r", "n", " ", "\"", "D", "\"", "{", "}">>,
      (* fn f(){let x:i32=1} *)
       <<"f", "n", " ", "f", "(", ")", "{", "l", "e", "t", " ", "x", ":", "i", "3", "2", "=", "1", "}">>,
      (* extern "D"{fn f(){let x:i32=1}} *)
       <<"e", "x", "t", "e", "r", "n", " ", "\"", "D", "\"", "{", "f", "n", " ", "f", "(", ")", "{", "l", "e", "t", " ", "x", ":", "i", "3", "2", "=", "1", "}", "}">>,
      (* fn f(){1a} *)
       <<"f", "n", " ", "f", "(", ")", "{", "1", "a", "}">>,
      (* fn f(){)} *)
       <<"f", "n", " ", "f", "(", ")", "{", ")", "}">>>>

ItemDefects ==
    <<<<>>,
      <<>>,
      <<"StaticWithoutInitializer">>,
      <<>>,
      <<"ExternFunctionWithBody">>,
      <<"ExternStaticWithInitializer">>,
      <<"UnsupportedAbi">>,
      <<"MissingToken">>,
      <<"UnsupportedAbi", "MissingToken", "ExternFunctionWithBody">>,
      <<>>,
      <<>>>>

ItemFatal == {10, 11}

\* the most items in a file of SpecItems
MaxItems == 2

ItemFiles == UNION {[1..n -> 1..Len(ItemTexts)] : n \in 0..MaxItems}

FileText(f) == Concat([i \in 1..Len(f) |-> ItemTexts[f[i]]])

FileDefects(f) == Concat([i \in 1..Len(f) |-> ItemDefects[f[i]]])

InitItems ==
    /\ \E f \in ItemFiles : \E cut \in 0..Len(FileText(f)) :
          /\ source = SubSeq(FileText(f), 1, cut)
          /\ plan = IF cut = Len(FileText(f)) /\ \A i \in 1..Len(f) : f[i] \notin ItemFatal
                    THEN [kind |-> "items", known |-> TRUE, items |-> f,
                          defects |-> FileDefects(f)]
                    ELSE [kind |-> "items", known |-> FALSE]
    /\ pc = "new"
    /\ lexer = NoLexer
    /\ pulled = <<>>
    /\ outcome = NoResult
    /\ query = NoQuery

NextItems == Parse

SpecItems == InitItems /\ [][NextItems]_vars

----------------------------------------------------------------------------
(* What parse() hands back, against what went on inside it.                *)

Parsed == pc = "parsed"

\* the parse stopped on a fatal error
Fatal ==
    /\ Parsed
    /\ ~outcome.ok
    /\ outcome.err.kind \in {"UnexpectedEOF", "UnexpectedToken", "LexicalError"}

\* the recoverable errors in the accumulator when parse_items came back
Recorded == outcome.items.p.errors

\* the first n outcomes of pulling on a lexer
RECURSIVE pulls(_, _)
pulls(lx, n) ==
    IF n = 0 THEN <<>>
    ELSE LET r == Lexer_next(lx) IN <<r.out>> \o pulls(r.lx, n - 1)

\* C1: parse() returns Ok(Crate) exactly when parsing the items met no fatal
\* error and the accumulator is empty once all items are parsed; when the
\* items were parsed without a fatal error and something was recorded, the
\* result is Err(Aggregated) holding that non-empty list, and no Crate.
C1_OkIffCleanParse ==
    Parsed =>
        /\ outcome.ok <=> (outcome.items.ok /\ Recorded = <<>>)
        /\ outcome.ok => outcome.val.node = "Crate" /\ outcome.err = <<>>
        /\ (outcome.items.ok /\ Recorded /= <<>>) =>
              /\ ~outcome.ok
              /\ outcome.val = <<>>
              /\ outcome.err = Aggregated(Recorded)
              /\ outcome.err.errors /= <<>>

\* a parse without a fatal error that recorded something and came back
\* Aggregated
C1_Witness ==
    /\ Parsed
    /\ outcome.items.ok
    /\ Recorded /= <<>>
    /\ outcome.err.kind = "Aggregated"

\* a parse that came back with a Crate
C1_WitnessOk == Parsed /\ outcome.ok /\ Len(outcome.val.items) = MaxItems

\* C2: a fatal error ends the parse at once.  The value returned is the
\* error of the last thing pulled from the lexer (the offending token, the
\* lexer's error, or the end of the stream), everything pulled before it was
\* a token, nothing is left buffered or pulled beyond it, and no Crate is
\* returned.
C2_FatalStopsAtOnce ==
    Fatal =>
        LET p == outcome.p
            n == Len(p.pulled)
            err == outcome.err
        IN /\ outcome.val = <<>>
           /\ outcome.err = outcome.items.err
           /\ ~outcome.items.ok
           /\ n > 0
           /\ p.peeked = <<>>
           /\ p.pulled = pulls(Lexer_new(source), n)
           /\ \A i \in 1..(n - 1) : p.pulled[i].kind = "Some"
           /\ CASE err.kind = "UnexpectedToken" -> p.pulled[n] = Some(err.actual)
                [] err.kind = "LexicalError" -> p.pulled[n] = Error(err.error)
                [] err.kind = "UnexpectedEOF" -> p.pulled[n] = None

\* a parse that stopped on an unexpected token with input left after it
C2_Witness ==
    /\ Fatal
    /\ outcome.err.kind = "UnexpectedToken"
    /\ ~is_eof(outcome.err.actual)
    /\ outcome.p.lexer.rest /= <<>>
    /\ Len(outcome.p.pulled) > 1

\* a parse that stopped on a lexer error
C2_WitnessLexical == Fatal /\ outcome.err.kind = "LexicalError"

\* C3: recording a recoverable error does not stop parsing.  A file of whole
\* items without a fatal defect is parsed to its end, and the Aggregated
\* list holds one entry for each defect written into the file, in the
\* order of the file.
C3_EveryDefectReported ==
    (Parsed /\ plan.kind = "items" /\ plan.known) =>
        /\ outcome.items.ok
        /\ Len(outcome.items.val) = Len(plan.items)
        /\ [i \in 1..Len(Recorded) |-> Recorded[i].kind] = plan.defects
        /\ plan.defects /= <<>> =>
              /\ ~outcome.ok
              /\ outcome.err.kind = "Aggregated"
              /\ [i \in 1..Len(outcome.err.errors) |-> outcome.err.errors[i].kind]
                    = plan.defects

\* two items with a defect each, both reported by one parse
C3_Witness ==
    /\ Parsed
    /\ plan.kind = "items"
    /\ plan.known
    /\ Len(plan.items) = 2
    /\ \A i \in 1..2 : ItemDefects[plan.items[i]] /= <<>>
    /\ plan.items[1] /= plan.items[2]
    /\ ~outcome.ok
    /\ outcome.err.kind = "Aggregated"
    /\ Len(outcome.err.errors) >= 2

\* C4: no recorded recoverable error is dropped: whatever the accumulator
\* holds when the parse ends is in the result of parse(), also when the
\* parse ended on a fatal error.
C4_NoErrorDropped ==
    (Parsed /\ Recorded /= <<>>) =>
        /\ ~outcome.ok
        /\ outcome.err.kind = "Aggregated"
        /\ outcome.err.errors = Recorded

\* a fatal error after a recoverable one was recorded
C4_DroppedWitness == Fatal /\ Recorded /= <<>>

----------------------------------------------------------------------------
(* The end of the token stream.                                            *)

\* the i-th pull returned the EOF token
EofAt(i) == pulled[i].kind = "Some" /\ is_eof(pulled[i].tok)

\* C7: the lexer emits the EOF token exactly once, when the input is
\* exhausted: there is never a second EOF, every pull after the EOF returns
\* Ok(None), Ok(None) is returned only after the EOF, and a caller that
\* keeps pulling gets the EOF after at most one pull per character.
C7_ExactlyOneEOF ==
    pc = "lexing" =>
        /\ \A i, j \in 1..Len(pulled) : EofAt(i) /\ EofAt(j) => i = j
        /\ \A i \in 1..Len(pulled) :
              pulled[i].kind = "None" <=> \E j \in 1..(i - 1) : EofAt(j)
        /\ (\E i \in 1..Len(pulled) : EofAt(i)) <=> lexer.finished
        /\ lexer.finished => lexer.rest = <<>>
        /\ Len(pulled) > Len(source) => \E i \in 1..Len(pulled) : EofAt(i)

\* tokens, then the EOF, then two pulls after it
C7_Witness ==
    /\ pc = "lexing"
    /\ Len(pulled) >= 4
    /\ pulled[1].kind = "Some"
    /\ EofAt(Len(pulled) - 2)
    /\ pulled[Len(pulled)].kind = "None"

----------------------------------------------------------------------------
(* SpecExpr: files `fn f(){ e }` whose e is a chain of operands joined by  *)
(* binary operators, with at most one unary operator in front of one       *)
(* operand.                                                                *)

\* the binary operators: the text, the node the operator is expected to
\* build, and the level of the operator, 1 the loosest
BinOps ==
    <<[text |-> <<"=">>, tag |-> "Assign", level |-> 1],
      [text |-> <<"|", "|">>, tag |-> "Or", level |-> 2],
      [text |-> <<"&", "&">>, tag |-> "And", level |-> 3],
      [text |-> <<"=", "=">>, tag |-> "Eq", level |-> 4],
      [text |-> <<"!", "=">>, tag |-> "Ne", level |-> 4],
      [text |-> <<">">>, tag |-> "Gt", level |-> 4],
      [text |-> <<"<">>, tag |-> "Lt", level |-> 4],
      [text |-> <<">", "=">>, tag |-> "Ge", level |-> 4],
      [text |-> <<"<", "=">>, tag |-> "Le", level |-> 4],
      [text |-> <<"|">>, tag |-> "BitOr", level |-> 5],
      [text |-> <<"^">>, tag |-> "BitXor", level |-> 6],
      [text |-> <<"&">>, tag |-> "BitAnd", level |-> 7],
      [text |-> <<"+">>, tag |-> "Add", level |-> 8],
      [text |-> <<"-">>, tag |-> "Sub", level |-> 8],
      [text |-> <<"*">>, tag |-> "Mul", level |-> 9],
      [text |-> <<"/">>, tag |-> "Div", level |-> 9],
      [text |-> <<"%">>, tag |-> "Rem", level |-> 9],
      [text |-> <<"a", "s">>, tag |-> "TypeCast", level |-> 10]>>

\* the unary operators, all of the tightest level
UnOps == <<[text |-> <<"-">>, tag |-> "Neg"], [text |-> <<"!">>, tag |-> "Not"]>>
UnaryLevel == BinOps[Len(BinOps)].level + 1

\* an operand is tighter than every operator
OperandLevel == UnaryLevel + 1

\* the operands of a chain, by position
OperandNames == <<"a", "b", "c", "d", "e">>

\* the most binary operators in a chain
MaxOps == 2

\* a chain: its binary operators, and the unary operator (0 for none) in
\* front of the operand at position `at`
Chains ==
    {[ops |-> ops, un |-> un, at |-> at] :
        ops \in UNION {[1..n -> 1..Len(BinOps)] : n \in 0..MaxOps},
        un \in 0..Len(UnOps), at \in 1..(MaxOps + 1)}

\* the operand at position k is a type: it follows `as`
IsType(c, k) == k > 1 /\ BinOps[c.ops[k - 1]].tag = "TypeCast"

\* the first operator of every level in BinOps
LevelFirst ==
    {i \in 1..Len(BinOps) : \A j \in 1..(i - 1) : BinOps[j].level /= BinOps[i].level}

\* the chains written: the last two operators are any two, the ones before
\* them are the first of their level; the unary operator stands before an
\* operand that is an expression
WellFormed(c) ==
    /\ \A k \in 1..(Len(c.ops) - 2) : c.ops[k] \in LevelFirst
    /\ \/ c.un = 0 /\ c.at = 1
       \/ c.un > 0 /\ c.at <= Len(c.ops) + 1 /\ ~IsType(c, c.at)

OperandText(c, k) ==
    (IF c.un > 0 /\ c.at = k THEN UnOps[c.un].text \o <<" ">> ELSE <<>>)
    \o (IF IsType(c, k) THEN <<"i", "3", "2">> ELSE <<OperandNames[k]>>)

RECURSIVE ChainText(_, _)
ChainText(c, n) ==
    IF n = 0 THEN OperandText(c, 1)
    ELSE ChainText(c, n - 1) \o <<" ">> \o BinOps[c.ops[n]].text \o <<" ">>
         \o OperandText(c, n + 1)

FnText(body) == <<"f", "n", " ", "f", "(", ")", "{">> \o body \o <<"}">>

InitExpr ==
    /\ \E c \in Chains :
          /\ WellFormed(c)
          /\ source = FnText(ChainText(c, Len(c.ops)))
          /\ plan = [kind |-> "chain", ops |-> c.ops, un |-> c.un, at |-> c.at]
    /\ pc = "new"
    /\ lexer = NoLexer
    /\ pulled = <<>>
    /\ outcome = NoResult
    /\ query = NoQuery

NextExpr == Parse

SpecExpr == InitExpr /\ [][NextExpr]_vars

\* the expression e of a parsed file `fn f(){ e }`
TailExpr == outcome.val.items[1].body.return_expr[1]

\* an expression without its spans
RECURSIVE Shape(_)
Shape(e) ==
    CASE e.node = "Path" -> <<"Path", e.path>>
      [] e.node = "Literal" -> <<"Literal", e.value>>
      [] e.node = "Assign" -> <<"Assign", Shape(e.assignee), Shape(e.value)>>
      [] e.node \in {"LazyBool", "Comp", "Arith"} ->
           <<e.operator, Shape(e.lhs), Shape(e.rhs)>>
      [] e.node = "TypeCast" -> <<"TypeCast", Shape(e.expr), <<"Type", e.ty.ty>>>>
      [] e.node = "Neg" -> <<e.operator, Shape(e.expr)>>
      [] e.node = "Grouped" -> <<"Grouped", Shape(e.expr)>>
      [] OTHER -> <<e.node>>

\* the operand of a chain at position k, as it is expected in the tree
Leaf(c, k) ==
    LET name == IF IsType(c, k) THEN <<"Type", "I32">>
                ELSE <<"Path", <<OperandNames[k]>>>>
    IN IF c.un > 0 /\ c.at = k THEN <<UnOps[c.un].tag, name>> ELSE name

\* op_n( ... op_2(op_1(x_1, x_2), x_3) ..., x_n+1)
RECURSIVE LeftFold(_, _)
LeftFold(c, n) ==
    IF n = 0 THEN Leaf(c, 1)
    ELSE <<BinOps[c.ops[n]].tag, LeftFold(c, n - 1), Leaf(c, n + 1)>>

SameLevel(c) ==
    \A i, j \in 1..Len(c.ops) : BinOps[c.ops[i]].level = BinOps[c.ops[j]].level

\* C5: a chain of binary operators of one level parses left-associatively:
\* `a op1 b op2 c` yields op2(op1(a, b), c) at every level, assignment,
\* comparison and `as` included.
C5_LeftAssociative ==
    (Parsed /\ plan.kind = "chain" /\ plan.un = 0 /\ Len(plan.ops) >= 2
        /\ SameLevel(plan)) =>
        /\ outcome.ok
        /\ Shape(TailExpr) = LeftFold(plan, Len(plan.ops))

\* `a - b - c` parsed to Sub(Sub(a, b), c)
C5_Witness ==
    /\ Parsed
    /\ plan.kind = "chain"
    /\ plan.un = 0
    /\ source = FnText(<<"a", " ", "-", " ", "b", " ", "-", " ", "c">>)
    /\ outcome.ok
    /\ Shape(TailExpr) = <<"Sub", <<"Sub", <<"Path", <<"a">>>>, <<"Path", <<"b">>>>>>,
                                  <<"Path", <<"c">>>>>>

\* what an operator node is called in BinOps and UnOps
TagOf(e) == IF e.node \in {"LazyBool", "Comp", "Arith", "Neg"} THEN e.operator ELSE e.node

\* the level of the operator at the root of an expression
LevelOf(e) ==
    LET hits == {i \in 1..Len(BinOps) : BinOps[i].tag = TagOf(e)}
    IN IF hits /= {} THEN BinOps[CHOOSE i \in hits : TRUE].level
       ELSE IF e.node = "Neg" THEN UnaryLevel
       ELSE OperandLevel

\* the operands of an operator node that are expressions
OperandsOf(e) ==
    CASE e.node = "Assign" -> <<e.assignee, e.value>>
      [] e.node \in {"LazyBool", "Comp", "Arith"} -> <<e.lhs, e.rhs>>
      [] e.node \in {"TypeCast", "Neg"} -> <<e.expr>>
      [] OTHER -> <<>>

\* no operator has an operand whose operator is of a looser level
RECURSIVE TighterBelow(_)
TighterBelow(e) ==
    \A i \in 1..Len(OperandsOf(e)) :
        /\ LevelOf(OperandsOf(e)[i]) >= LevelOf(e)
        /\ TighterBelow(OperandsOf(e)[i])

\* the operators and operands of an expression, left to right
RECURSIVE InOrder(_)
InOrder(e) ==
    CASE e.node = "Assign" -> InOrder(e.assignee) \o <<"Assign">> \o InOrder(e.value)
      [] e.node \in {"LazyBool", "Comp", "Arith"} ->
           InOrder(e.lhs) \o <<e.operator>> \o InOrder(e.rhs)
      [] e.node = "TypeCast" -> InOrder(e.expr) \o <<"TypeCast", <<"Type", e.ty.ty>>>>
      [] e.node = "Neg" -> <<e.operator>> \o InOrder(e.expr)
      [] e.node = "Path" -> << <<"Path", e.path>> >>
      [] OTHER -> <<e.node>>

\* the operators and operands of a chain, as written
RECURSIVE Written(_, _)
Written(c, n) ==
    LET operand(k) ==
            (IF c.un > 0 /\ c.at = k THEN <<UnOps[c.un].tag>> ELSE <<>>)
            \o (IF IsType(c, k) THEN << <<"Type", "I32">> >>
                ELSE << <<"Path", <<OperandNames[k]>>>> >>)
    IN IF n = 0 THEN operand(1)
       ELSE Written(c, n - 1) \o <<BinOps[c.ops[n]].tag>> \o operand(n + 1)

\* C6: precedence is respected across the 11 levels.  Every chain parses to
\* a tree that reads left to right as the chain was written and in which no
\* operator has a looser operator as an operand; of two binary operators of
\* different levels the tighter one is built as an operand of the looser.
C6_PrecedenceRespected ==
    (Parsed /\ plan.kind = "chain") =>
        /\ outcome.ok
        /\ InOrder(TailExpr) = Written(plan, Len(plan.ops))
        /\ TighterBelow(TailExpr)
        /\ (plan.un = 0 /\ Len(plan.ops) = 2 /\ ~SameLevel(plan)) =>
              LET o1 == BinOps[plan.ops[1]]
                  o2 == BinOps[plan.ops[2]]
              IN Shape(TailExpr) =
                    IF o1.level < o2.level
                    THEN <<o1.tag, Leaf(plan, 1), <<o2.tag, Leaf(plan, 2), Leaf(plan, 3)>>>>
                    ELSE <<o2.tag, <<o1.tag, Leaf(plan, 1), Leaf(plan, 2)>>, Leaf(plan, 3)>>

\* `a + b * c` parsed to Add(a, Mul(b, c))
C6_Witness ==
    /\ Parsed
    /\ plan.kind = "chain"
    /\ source = FnText(<<"a", " ", "+", " ", "b", " ", "*", " ", "c">>)
    /\ outcome.ok
    /\ Shape(TailExpr) = <<"Add", <<"Path", <<"a">>>>,
                                  <<"Mul", <<"Path", <<"b">>>>, <<"Path", <<"c">>>>>>>>

\* `- a as i32` parsed to Cast(Neg(a))
C6_WitnessCast ==
    /\ Parsed
    /\ plan.kind = "chain"
    /\ source = FnText(<<"-", " ", "a", " ", "a", "s", " ", "i", "3", "2">>)
    /\ outcome.ok
    /\ Shape(TailExpr) = <<"TypeCast", <<"Neg", <<"Path", <<"a">>>>>>, <<"Type", "I32">>>>

----------------------------------------------------------------------------
(* SpecBlock: files `fn f(){ ... }` whose block is a list of statements,   *)
(* expressions and semicolons.                                             *)

\* the elements the blocks of SpecBlock are made of: the text of each, and
\* what it is written as: an expression with its `;` (stmt), an expression
\* without one (tail), a let statement, or a lone `;`
ElementTexts ==
    <<(* a; *) <<"a", ";">>,
      (* a *) <<"a">>,
      (* let x:i32=1; *) <<"l", "e", "t", " ", "x", ":", "i", "3", "2", "=", "1", ";">>,
      (* ; *) <<";">>,
      (* {}; *) <<"{", "}", ";">>,
      (* {} *) <<"{", "}">>,
      (* if a{} *) <<"i", "f", " ", "a", "{", "}">>,
      (* if a{}; *) <<"i", "f", " ", "a", "{", "}", ";">>,
      (* a=b *) <<"a", "=", "b">>,
      (* !a; *) <<"!", "a", ";">>,
      (* {b} *) <<"{", "b", "}">>,
      (* {b;}; *) <<"{", "b", ";", "}", ";">>>>

ElementKinds ==
    <<"stmt", "tail", "let", "semi", "stmt", "tail", "tail", "stmt", "tail", "stmt", "tail", "stmt">>

\* the most elements in a block of SpecBlock
MaxStmts == 3

BlockPlans == UNION {[1..n -> 1..Len(ElementTexts)] : n \in 0..MaxStmts}

BlockText(b) == Concat([i \in 1..Len(b) |-> <<" ">> \o ElementTexts[b[i]]])

InitBlock ==
    /\ \E b \in BlockPlans :
          /\ source = FnText(BlockText(b))
          /\ plan = [kind |-> "block", elements |-> b]
    /\ pc = "new"
    /\ lexer = NoLexer
    /\ pulled = <<>>
    /\ outcome = NoResult
    /\ query = NoQuery

NextBlock == Parse

SpecBlock == InitBlock /\ [][NextBlock]_vars

\* the nodes right below a node
Children(e) ==
    CASE e.node \in {"Crate", "Extern"} -> e.items
      [] e.node = "Func" -> <<e.body>>
      [] e.node \in {"Static", "Let", "Return"} -> e.value
      [] e.node = "Block" -> e.statements \o e.return_expr
      [] e.node = "ExprStmt" -> <<e.expr>>
      [] e.node = "If" ->
           <<e.condition, e.then_block>>
           \o (IF e.else_expr.kind = "None" THEN <<>> ELSE <<e.else_expr.node>>)
      [] e.node = "While" -> <<e.condition, e.body>>
      [] e.node = "InfLoop" -> <<e.body>>
      [] e.node = "UnsafeBlock" -> <<e.block>>
      [] e.node = "FunCall" -> e.params
      [] e.node = "Grouped" -> <<e.expr>>
      [] OTHER -> OperandsOf(e)

\* the blocks in and below a node
RECURSIVE Blocks(_)
Blocks(e) ==
    (IF e.node = "Block" THEN {e} ELSE {})
    \cup UNION {Blocks(Children(e)[i]) : i \in 1..Len(Children(e))}

\* the tokens of the file, from a lexer of its own
SourceTokens ==
    LET outs == pulls(Lexer_new(source), Len(source) + 1)
    IN {outs[i].tok : i \in {j \in 1..Len(outs) : outs[j].kind = "Some"}}

\* the first of the tokens toks at or after pos
TokenAfter(toks, pos) ==
    CHOOSE t \in toks :
        /\ PosLe(pos, t.span.start)
        /\ \A u \in toks : PosLe(pos, u.span.start) => PosLe(t.span.start, u.span.start)

\* what the i-th element of a block is, given what is written after it: an
\* expression without a `;` of its own has one when a lone `;` follows
KindAt(b, i) ==
    IF ElementKinds[b[i]] = "tail" /\ i < Len(b) /\ ElementKinds[b[i + 1]] = "semi"
    THEN "stmt"
    ELSE ElementKinds[b[i]]

\* the elements of a block that are written as statements
WrittenStatements(b) ==
    LET kinds == [i \in 1..Len(b) |-> KindAt(b, i)]
    IN SelectSeq(kinds, LAMBDA k : k \in {"stmt", "let"})

\* C10: in every block of a parsed file, every expression statement of the
\* statement list is an expression with a `;` right after it, and the tail
\* expression, if there is one, comes after all the statements and has the
\* closing `}` of the block right after it.  An expression written with a
\* `;` is in the statement list, and one written without is the tail.
C10_StatementsAndTail ==
    (Parsed /\ plan.kind = "block" /\ outcome.items.ok) =>
        LET body == outcome.items.val[1].body
            written == WrittenStatements(plan.elements)
            n == Len(plan.elements)
            toks == SourceTokens
        IN /\ \A b \in Blocks(body) :
                 /\ \A i \in 1..Len(b.statements) :
                       LET s == b.statements[i]
                           next == TokenAfter(toks, s.expr.span.end)
                       IN s.node = "ExprStmt" =>
                             /\ next.ty = "Semi"
                             /\ next.span.end = s.span.end
                 /\ Len(b.return_expr) <= 1
                 /\ b.return_expr /= <<>> =>
                       LET next == TokenAfter(toks, b.return_expr[1].span.end)
                       IN /\ \A i \in 1..Len(b.statements) :
                                PosLe(b.statements[i].span.end, b.return_expr[1].span.start)
                          /\ next.ty = "RBra"
                          /\ next.span.end = b.span.end
           /\ Len(body.statements) = Len(written)
           /\ \A i \in 1..Len(written) :
                 (body.statements[i].node = "ExprStmt") <=> (written[i] = "stmt")
           /\ body.return_expr /= <<>> <=> (n > 0 /\ KindAt(plan.elements, n) = "tail")
           /\ \A i \in 1..(n - 1) : KindAt(plan.elements, i) /= "tail"

\* a block with two expression statements, a nested block with a tail, and
\* a tail of its own
C10_Witness ==
    /\ Parsed
    /\ plan.kind = "block"
    /\ outcome.ok
    /\ LET body == outcome.val.items[1].body
       IN /\ Len(body.statements) = 2
          /\ \A i \in 1..2 : body.statements[i].node = "ExprStmt"
          /\ body.return_expr /= <<>>
          /\ body.return_expr[1].node = "Block"
          /\ body.return_expr[1].return_expr /= <<>>

\* an expression without a `;` that is not the last thing in its block
C10_WitnessFatal ==
    /\ Parsed
    /\ plan.kind = "block"
    /\ Len(plan.elements) = 2
    /\ KindAt(plan.elements, 1) = "tail"
    /\ ~outcome.items.ok

----------------------------------------------------------------------------
(* SpecNodes: what a caller that holds the expressions of a parsed file    *)
(* can ask of them.                                                        *)

\* the statements the files of SpecNodes are made of, one to a file: every
\* kind of expression, and assignments between them
NodeTexts ==
    {(* 1; *) <<"1", ";">>,
     (* true; *) <<"t", "r", "u", "e", ";">>,
     (* 1.5; *) <<"1", ".", "5", ";">>,
     (* (); *) <<"(", ")", ";">>,
     (* a; *) <<"a", ";">>,
     (* _; *) <<"_", ";">>,
     (* f(a); *) <<"f", "(", "a", ")", ";">>,
     (* a = 1; *) <<"a", " ", "=", " ", "1", ";">>,
     (* a = (); *) <<"a", " ", "=", " ", "(", ")", ";">>,
     (* a = b; *) <<"a", " ", "=", " ", "b", ";">>,
     (* a = _; *) <<"a", " ", "=", " ", "_", ";">>,
     (* _ = 1; *) <<"_", " ", "=", " ", "1", ";">>,
     (* 1 = 2; *) <<"1", " ", "=", " ", "2", ";">>,
     (* (a) = true; *) <<"(", "a", ")", " ", "=", " ", "t", "r", "u", "e", ";">>,
     (* a + 1; *) <<"a", " ", "+", " ", "1", ";">>,
     (* a < 1; *) <<"a", " ", "<", " ", "1", ";">>,
     (* a && b; *) <<"a", " ", "&", "&", " ", "b", ";">>,
     (* -a; *) <<"-", "a", ";">>,
     (* !a; *) <<"!", "a", ";">>,
     (* a as i32; *) <<"a", " ", "a", "s", " ", "i", "3", "2", ";">>,
     (* (a); *) <<"(", "a", ")", ";">>,
     (* {a}; *) <<"{", "a", "}", ";">>,
     (* loop{}; *) <<"l", "o", "o", "p", "{", "}", ";">>,
     (* while a{}; *) <<"w", "h", "i", "l", "e", " ", "a", "{", "}", ";">>,
     (* if a{}; *) <<"i", "f", " ", "a", "{", "}", ";">>,
     (* if a{}else{}; *) <<"i", "f", " ", "a", "{", "}", "e", "l", "s", "e", "{", "}", ";">>,
     (* unsafe{}; *) <<"u", "n", "s", "a", "f", "e", "{", "}", ";">>,
     (* return a; *) <<"r", "e", "t", "u", "r", "n", " ", "a", ";">>,
     (* return; *) <<"r", "e", "t", "u", "r", "n", ";">>,
     (* a = b = 1; *) <<"a", " ", "=", " ", "b", " ", "=", " ", "1", ";">>,
     (* a = if b{}; *) <<"a", " ", "=", " ", "i", "f", " ", "b", "{", "}", ";">>,
     (* a = f(); *) <<"a", " ", "=", " ", "f", "(", ")", ";">>,
     (* a = 1.5; *) <<"a", " ", "=", " ", "1", ".", "5", ";">>,
     (* a = {1}; *) <<"a", " ", "=", " ", "{", "1", "}", ";">>}

InitNodes ==
    /\ \E text \in NodeTexts : source = FnText(text)
    /\ plan = [kind |-> "nodes"]
    /\ pc = "new"
    /\ lexer = NoLexer
    /\ pulled = <<>>
    /\ outcome = NoResult
    /\ query = NoQuery

\* the nodes in and below a node
RECURSIVE Nodes(_)
Nodes(e) == {e} \cup UNION {Nodes(Children(e)[i]) : i \in 1..Len(Children(e))}

ExprKinds ==
    {"Literal", "Path", "Underscore", "FunCall", "Assign", "Arith", "Comp", "LazyBool",
     "Neg", "TypeCast", "Grouped", "Block", "InfLoop", "While", "If", "UnsafeBlock",
     "Return"}

\* the expressions of the parsed file
ParsedExprs ==
    {e \in UNION {Nodes(outcome.items.val[i]) : i \in 1..Len(outcome.items.val)} :
        e.node \in ExprKinds}

\* the expressions a caller can hold: those of the parsed file, and, for each
\* of them, an underscore of its span and the assignments of the one to the
\* other
HeldExprs ==
    ParsedExprs
    \cup {UnderscoreASTNode_new(e.span) : e \in ParsedExprs}
    \cup {AssignASTNode_new(e, UnderscoreASTNode_new(e.span), e.span) : e \in ParsedExprs}
    \cup {AssignASTNode_new(UnderscoreASTNode_new(e.span), e, e.span) : e \in ParsedExprs}

\* the three capability queries on an expression the caller holds
Query ==
    /\ pc = "parsed"
    /\ outcome.items.ok
    /\ \E e \in HeldExprs :
          query' = [kind |-> "capabilities", node |-> e,
                    place |-> try_as_place(e),
                    value |-> try_as_value(e),
                    assignee |-> try_as_assignee(e)]
    /\ UNCHANGED <<source, pc, lexer, pulled, outcome, plan>>

\* code_gen on an assignment the caller holds.  What code_gen of the value
\* returns, what the symbol table holds for the assignee and whether
\* build_store succeeds are the caller's state.
AssignCodeGen ==
    /\ pc = "parsed"
    /\ outcome.items.ok
    /\ \E e \in {h \in HeldExprs : h.node = "Assign"} :
          \E value \in code_gen_outcomes(e.value), symbol \in SymbolValues,
             stored \in BOOLEAN :
             query' = [kind |-> "code_gen", node |-> e, value |-> value,
                       result |-> AssignASTNode_code_gen(e, value, symbol, stored)]
    /\ UNCHANGED <<source, pc, lexer, pulled, outcome, plan>>

NextNodes == Parse \/ Query \/ AssignCodeGen

SpecNodes == InitNodes /\ [][NextNodes]_vars

\* C8: the capability set of every kind of expression is fixed, and Place
\* is within Assignee: try_as_place answers Some only where try_as_assignee
\* does.  A path answers Some to all three queries, an underscore only to
\* try_as_assignee, and every other kind only to try_as_value.
C8_CapabilityTable ==
    query.kind = "capabilities" =>
        LET e == query.node
            some == <<e>>
            none == <<>>
        IN /\ query.place /= none => query.assignee /= none
           /\ e.node = "Path" =>
                 query.place = some /\ query.value = some /\ query.assignee = some
           /\ e.node = "Underscore" =>
                 query.place = none /\ query.value = none /\ query.assignee = some
           /\ e.node \notin {"Path", "Underscore"} =>
                 query.place = none /\ query.value = some /\ query.assignee = none

\* the three queries made on an underscore
C8_Witness == query.kind = "capabilities" /\ query.node.node = "Underscore"

\* the three queries made on a path
C8_WitnessPath == query.kind = "capabilities" /\ query.node.node = "Path"

\* code_gen of an assignment ended in the error WrongExpressionKind with the
\* span of the node e
ReportsWrongKindOf(e) ==
    /\ query.result.kind = "Err"
    /\ query.result.error.kind = "WrongExpressionKind"
    /\ query.result.error.span = e.span

\* C9: at the assignment both operands are checked.  When code_gen of the
\* value has returned and the left operand is not an assignee, or when the
\* right operand is not a value, code_gen of the assignment ends in
\* WrongExpressionKind with the span of that operand.
C9_BothOperandsChecked ==
    query.kind = "code_gen" =>
        LET e == query.node
        IN /\ (query.value.kind = "Ok" /\ try_as_assignee(e.assignee) = <<>>) =>
                 ReportsWrongKindOf(e.assignee)
           /\ try_as_value(e.value) = <<>> => ReportsWrongKindOf(e.value)

\* code_gen of `1 = 2`: WrongExpressionKind with the span of the assignment
C9_WrongSpanWitness ==
    /\ query.kind = "code_gen"
    /\ source = FnText(<<"1", " ", "=", " ", "2", ";">>)
    /\ query.node \in ParsedExprs
    /\ query.result.kind = "Err"
    /\ query.result.error.kind = "WrongExpressionKind"
    /\ query.result.error.span = query.node.span
    /\ query.result.error.span /= query.node.assignee.span

\* code_gen of an assignment whose value is an underscore: a panic
C9_UncheckedValueWitness ==
    /\ query.kind = "code_gen"
    /\ query.node.value.node = "Underscore"
    /\ query.result.kind = "Panic"

----------------------------------------------------------------------------
(* Comparisons in a chain of operators (SpecExpr) *)

\* the operators of the comparison level
Relational == {i \in 1..Len(BinOps) : BinOps[i].tag \in {"Eq", "Ne", "Lt", "Gt", "Le", "Ge"}}

\* a comparison one of whose operands is a comparison
ChainedComparison(e) ==
    /\ e.node = "Comp"
    /\ \E i \in 1..Len(OperandsOf(e)) : OperandsOf(e)[i].node = "Comp"

\* C11: an expression that applies two relational operators at one nesting
\* level without parentheses (`a < b < c`, `a == b != c`) is not parsed into
\* a comparison whose operand is another comparison.
C11_ComparisonNonChaining ==
    (/\ Parsed
     /\ plan.kind = "chain"
     /\ \E i, j \in 1..Len(plan.ops) : i < j /\ plan.ops[i] \in Relational
                                             /\ plan.ops[j] \in Relational)
    => ~(outcome.ok /\ \E e \in Nodes(TailExpr) : ChainedComparison(e))

\* `a == b != c` parsed to Ne(Eq(a, b), c)
C11_ChainedWitness ==
    /\ Parsed /\ plan.kind = "chain" /\ outcome.ok
    /\ Len(plan.ops) = 2 /\ plan.un = 0
    /\ BinOps[plan.ops[1]].tag = "Eq" /\ BinOps[plan.ops[2]].tag = "Ne"
    /\ TailExpr.node = "Comp" /\ TailExpr.operator = "Ne"
    /\ TailExpr.lhs.node = "Comp" /\ TailExpr.lhs.operator = "Eq"

----------------------------------------------------------------------------
(* SpecEndings: files in which one construct that the grammar ends with a  *)
(* `;` is written with or without it, in an otherwise well-formed file.    *)
(* The plan names the context ("fn": a let statement in a function body,   *)
(* "top": a static item of the crate, "extern": a static or a function     *)
(* declaration in an extern block), whether the construct has `mut`, an    *)
(* initializer and its `;`, and what follows it.                           *)

\* what is written before the construct, per context
EndingOpen ==
    [fn |-> <<"f", "n", " ", "f", "(", ")", "{">>,
     top |-> <<>>,
     extern |-> <<"e", "x", "t", "e", "r", "n", " ", "\"", "C", "\"", "{">>]

\* what is written after the construct and its `;`, per context; the first
\* is the end of the file
FnFollowers ==
    <<
      (* the end of the file *)
       <<>>,
      (* } *)
       <<"}">>,
      (*  let y:i32=2;} *)
       <<" ", "l", "e", "t", " ", "y", ":", "i", "3", "2", "=", "2", ";", "}">>,
      (*  a} *)
       <<" ", "a", "}">>,
      (*  } *)
       <<" ", "}">>>>

TopFollowers ==
    <<
      (* the end of the file *)
       <<>>,
      (*  fn g(){} *)
       <<" ", "f", "n", " ", "g", "(", ")", "{", "}">>,
      (*  static y:i32=2; *)
       <<" ", "s", "t", "a", "t", "i", "c", " ", "y", ":", "i", "3", "2", "=", "2", ";">>>>

ExternFollowers ==
    <<
      (* the end of the file *)
       <<>>,
      (* } *)
       <<"}">>,
      (*  fn g();} *)
       <<" ", "f", "n", " ", "g", "(", ")", ";", "}">>,
      (*  static y:i32;} *)
       <<" ", "s", "t", "a", "t", "i", "c", " ", "y", ":", "i", "3", "2", ";", "}">>>>

EndingFollowers == [fn |-> FnFollowers, top |-> TopFollowers, extern |-> ExternFollowers]

\* the construct as written, without its `;`
EndingText(e) ==
    (CASE e.construct = "let" -> <<"l", "e", "t", " ">>
       [] e.construct = "static" -> <<"s", "t", "a", "t", "i", "c", " ">>
       [] e.construct = "fn" -> <<"f", "n", " ", "h", "(", ")">>)
    \o (IF e.mut THEN <<"m", "u", "t", " ">> ELSE <<>>)
    \o (IF e.construct = "fn" THEN <<>> ELSE <<"x", ":", "i", "3", "2">>)
    \o (IF e.init THEN <<"=", "1">> ELSE <<>>)

Endings ==
    {e \in [context : {"fn", "top", "extern"}, construct : {"let", "static", "fn"},
            mut : BOOLEAN, init : BOOLEAN, semi : BOOLEAN, next : 1..Len(FnFollowers)] :
        /\ e.construct = "let" <=> e.context = "fn"
        /\ e.construct = "fn" => e.context = "extern" /\ ~e.mut /\ ~e.init
        /\ e.next <= Len(EndingFollowers[e.context])}

EndingFile(e) ==
    EndingOpen[e.context] \o EndingText(e) \o (IF e.semi THEN <<";">> ELSE <<>>)
    \o EndingFollowers[e.context][e.next]

InitEndings ==
    /\ \E e \in Endings :
          /\ source = EndingFile(e)
          /\ plan = [kind |-> "ending", context |-> e.context, construct |-> e.construct,
                     mut |-> e.mut, init |-> e.init, semi |-> e.semi, next |-> e.next]
    /\ pc = "new"
    /\ lexer = NoLexer
    /\ pulled = <<>>
    /\ outcome = NoResult
    /\ query = NoQuery

NextEndings == Parse

SpecEndings == InitEndings /\ [][NextEndings]_vars

\* a MissingToken for a `;` is in the accumulator
MissingSemiRecorded ==
    \E i \in 1..Len(Recorded) :
        Recorded[i].kind = "MissingToken" /\ Recorded[i].expected = "Semi"

\* the let statement of the plan is written without its `;` and the file
\* ends right after it
LetBeforeEOF ==
    /\ Parsed /\ plan.kind = "ending"
    /\ plan.construct = "let" /\ ~plan.semi /\ plan.next = 1

\* C12: a let statement whose `;` is missing and which is directly followed
\* by the EOF token causes no fatal error: a MissingToken for the `;` is
\* recorded (the one fatal error allowed for is that of the `}` the file
\* lacks as well).
C12_LetBeforeEOFRecovered ==
    LetBeforeEOF
    => /\ MissingSemiRecorded
       /\ Fatal => outcome.err.kind = "UnexpectedToken" /\ outcome.err.expected = "'}'"

\* `fn f(){let x:i32=1` stopped on the EOF token inside the initializer,
\* with nothing recorded
C12_FatalInLetWitness ==
    /\ LetBeforeEOF /\ plan.init /\ Fatal
    /\ outcome.err.kind = "UnexpectedToken" /\ is_eof(outcome.err.actual)
    /\ outcome.err.expected = "<operator>, '=', '{', '(', ',', '}', ';', 'as'"
    /\ Recorded = <<>>

\* the construct of the plan is written without its `;`, and something other
\* than the end of the file follows it
TerminatorMissing ==
    /\ Parsed /\ plan.kind = "ending"
    /\ ~plan.semi /\ plan.next > 1

\* C13: wherever the grammar requires a terminating `;` (after a let
\* statement with or without initializer, after a static item, after an
\* extern function declaration) and the next token is something else, a
\* MissingToken is recorded and parsing goes on: the absence of the
\* terminator alone yields no fatal error.
C13_MissingTerminatorRecoverable ==
    TerminatorMissing => MissingSemiRecorded /\ ~Fatal

\* `static x:i32=1 fn g(){}` stopped on `fn`, with nothing recorded
C13_FatalStaticWitness ==
    /\ TerminatorMissing /\ plan.context = "top" /\ plan.init /\ ~plan.mut
    /\ Fatal /\ outcome.err.kind = "UnexpectedToken"
    /\ outcome.err.actual.ty = "Fn"
    /\ Recorded = <<>>

\* `fn f(){let x:i32=1}` went on after the missing `;`
C13_RecoveredLetWitness ==
    /\ TerminatorMissing /\ plan.construct = "let" /\ plan.init /\ plan.next = 2
    /\ ~Fatal /\ MissingSemiRecorded
    /\ outcome.items.val[1].body.statements[1].node = "Let"

----------------------------------------------------------------------------
(* SpecExtern: files made of an optional static item of the crate and one  *)
(* extern block.  The plan names the static (1: none, 2: with, 3: without  *)
(* initializer), the ABI string and the members of the block, by their     *)
(* index in MemberTexts.  Everything is written on one line.               *)

TopStaticTexts ==
    <<
      (* no static item *)
       <<>>,
      (* static x:i32=1; *)
       <<"s", "t", "a", "t", "i", "c", " ", "x", ":", "i", "3", "2", "=", "1", ";">>,
      (* static x:i32; *)
       <<"s", "t", "a", "t", "i", "c", " ", "x", ":", "i", "3", "2", ";">>>>

AbiNames == {"C", "D"}

MemberTexts ==
    <<
      (* fn f(); *)
       <<"f", "n", " ", "f", "(", ")", ";">>,
      (* fn f(){} *)
       <<"f", "n", " ", "f", "(", ")", "{", "}">>,
      (* fn f(){a} *)
       <<"f", "n", " ", "f", "(", ")", "{", "a", "}">>,
      (* static x:i32; *)
       <<"s", "t", "a", "t", "i", "c", " ", "x", ":", "i", "3", "2", ";">>,
      (* static x:i32=1; *)
       <<"s", "t", "a", "t", "i", "c", " ", "x", ":", "i", "3", "2", "=", "1", ";">>>>

\* what a member is: a function declaration, a function with a body, a
\* static without or with an initializer
MemberKinds == <<"decl", "body", "body", "static", "static_init">>

\* where in its text the body of a member starts and ends
MemberBody == <<<<>>, <<7, 8>>, <<7, 9>>, <<>>, <<>>>>

\* the most members in the extern block of SpecExtern
MaxMembers == 2

ExternPlans ==
    [top : 1..Len(TopStaticTexts), abi : AbiNames,
     members : UNION {[1..n -> 1..Len(MemberTexts)] : n \in 0..MaxMembers}]

\* the text before the members of the block
ExternOpen(e) ==
    TopStaticTexts[e.top] \o <<"e", "x", "t", "e", "r", "n", " ", "\"">> \o <<e.abi>> \o <<"\"", "{">>

ExternFile(e) ==
    ExternOpen(e) \o Concat([i \in 1..Len(e.members) |-> MemberTexts[e.members[i]]])
    \o <<"}">>

InitExtern ==
    /\ \E e \in ExternPlans :
          /\ source = ExternFile(e)
          /\ plan = [kind |-> "extern", top |-> e.top, abi |-> e.abi, members |-> e.members]
    /\ pc = "new"
    /\ lexer = NoLexer
    /\ pulled = <<>>
    /\ outcome = NoResult
    /\ query = NoQuery

NextExtern == Parse

SpecExtern == InitExtern /\ [][NextExtern]_vars

\* the extern block parsed: the last item parse_items returned
ExternNode == outcome.items.val[Len(outcome.items.val)]

\* the column at which member i of the plan starts
MemberStart(i) ==
    Len(ExternOpen(plan)) + 1
    + Len(Concat([j \in 1..(i - 1) |-> MemberTexts[plan.members[j]]]))

\* the errors of one kind in the accumulator, in order
RecordedOf(kind) == SelectSeq(Recorded, LAMBDA e : e.kind = kind)

\* the members of the plan of the kinds given, in order
MembersOf(kinds) == {i \in 1..Len(plan.members) : MemberKinds[plan.members[i]] \in kinds}

\* the k-th smallest element of a set of numbers
Nth(S, k) == CHOOSE i \in S : Cardinality({j \in S : j < i}) = k - 1

\* the span of the body of member i of the plan
BodySpan(i) ==
    LET at == MemberStart(i)
        body == MemberBody[plan.members[i]]
    IN Span_new([line |-> 1, column |-> at + body[1] - 1],
                [line |-> 1, column |-> at + body[2]])

\* C14: a function given a body inside an extern block is recovered: the
\* body is parsed and dropped, the prototype is the member's item in the
\* block, one ExternFunctionWithBody with the span of the body is recorded
\* per such function, the members after it are parsed, and parse() returns
\* Aggregated holding these errors.
C14_ExternBodyRecovered ==
    (Parsed /\ plan.kind = "extern")
    => LET bodies == MembersOf({"body"})
           errs == RecordedOf("ExternFunctionWithBody")
       IN /\ ~Fatal
          /\ ExternNode.node = "Extern"
          /\ Len(ExternNode.items) = Len(plan.members)
          /\ \A i \in bodies : /\ ExternNode.items[i].node = "FuncProto"
                               /\ "body" \notin DOMAIN ExternNode.items[i]
          /\ Len(errs) = Cardinality(bodies)
          /\ \A k \in 1..Len(errs) : errs[k].span = BodySpan(Nth(bodies, k))
          /\ bodies /= {}
             => /\ ~outcome.ok /\ outcome.err.kind = "Aggregated"
                /\ \A k \in 1..Len(errs) :
                      \E n \in 1..Len(outcome.err.errors) : outcome.err.errors[n] = errs[k]

\* `extern "C"{fn f(){}fn f(){a}}`: two bodies, two errors
C14_Witness ==
    /\ Parsed /\ plan.kind = "extern" /\ plan.top = 1 /\ plan.abi = "C"
    /\ plan.members = <<2, 3>>
    /\ outcome.err.kind = "Aggregated" /\ Len(outcome.err.errors) = 2
    /\ outcome.err.errors[2].span = BodySpan(2)

\* the static item of the crate that the plan writes
TopStatic == outcome.items.val[1]

\* a static node holds an initializer
HasInitializer(node) == node.node = "Static" /\ node.value /= <<>>

\* C15: for a complete static item a recoverable error is recorded exactly
\* when the initializer does not fit the context: a static of the crate
\* without initializer records one StaticWithoutInitializer, a static in an
\* extern block with an initializer records one ExternStaticWithInitializer,
\* the two other combinations record nothing; in all four the Static node is
\* built, with the initializer if one was written, and parsing continues.
C15_StaticInitializerFitsContext ==
    (Parsed /\ plan.kind = "extern")
    => LET statics == MembersOf({"static", "static_init"})
           with_init == MembersOf({"static_init"})
       IN /\ ~Fatal
          /\ Len(RecordedOf("StaticWithoutInitializer")) = (IF plan.top = 3 THEN 1 ELSE 0)
          /\ Len(RecordedOf("ExternStaticWithInitializer")) = Cardinality(with_init)
          /\ Len(outcome.items.val) = (IF plan.top = 1 THEN 1 ELSE 2)
          /\ plan.top /= 1 => /\ TopStatic.node = "Static"
                              /\ HasInitializer(TopStatic) <=> plan.top = 2
          /\ Len(ExternNode.items) = Len(plan.members)
          /\ \A i \in statics : /\ ExternNode.items[i].node = "Static"
                                /\ HasInitializer(ExternNode.items[i]) <=> i \in with_init

\* `static x:i32;extern "C"{static x:i32=1;static x:i32;}`: one error of
\* each kind, three Static nodes
C15_Witness ==
    /\ Parsed /\ plan.kind = "extern" /\ plan.top = 3 /\ plan.abi = "C"
    /\ plan.members = <<5, 4>>
    /\ Len(Recorded) = 2
    /\ Recorded[1].kind = "StaticWithoutInitializer"
    /\ Recorded[2].kind = "ExternStaticWithInitializer"
    /\ ~HasInitializer(TopStatic)
    /\ HasInitializer(ExternNode.items[1]) /\ ~HasInitializer(ExternNode.items[2])

\* the file is one extern block of declarations and statics without initializer
CleanExternFile ==
    /\ plan.top = 1
    /\ MembersOf({"decl", "static"}) = 1..Len(plan.members)

\* C16: an extern block with the ABI "C" whose functions are declarations
\* and whose statics have no initializer records no recoverable error, and
\* a file of such a block parses to Ok(Crate); an ABI other than "C" records
\* exactly one UnsupportedAbi error, which holds the ABI string, and the
\* block is parsed all the same, into a node with that ABI and its members.
C16_ExternAbi ==
    (Parsed /\ plan.kind = "extern")
    => /\ (plan.abi = "C" /\ CleanExternFile)
          => /\ Recorded = <<>>
             /\ outcome.ok /\ outcome.val.node = "Crate"
             /\ outcome.val.items = <<ExternNode>>
       /\ RecordedOf("UnsupportedAbi")
            = (IF plan.abi = "C" THEN <<>> ELSE <<UnsupportedAbi(<<plan.abi>>)>>)
       /\ ~Fatal
       /\ ExternNode.node = "Extern"
       /\ ExternNode.abi = <<plan.abi>>
       /\ Len(ExternNode.items) = Len(plan.members)
       /\ (plan.abi /= "C" /\ CleanExternFile)
          => /\ ~outcome.ok
             /\ outcome.err = Aggregated(<<UnsupportedAbi(<<plan.abi>>)>>)

\* `extern "C"{static x:i32;fn f();}` parses to a crate without any error
C16_CleanWitness ==
    /\ Parsed /\ plan.kind = "extern" /\ plan.abi = "C" /\ plan.top = 1
    /\ plan.members = <<4, 1>>
    /\ outcome.ok /\ Recorded = <<>>
    /\ Len(outcome.val.items[1].items) = 2

\* `extern "D"{static x:i32;fn f();}` records the ABI and builds the block
C16_UnsupportedWitness ==
    /\ Parsed /\ plan.kind = "extern" /\ plan.abi = "D" /\ plan.top = 1
    /\ plan.members = <<4, 1>>
    /\ Recorded = <<UnsupportedAbi(<<"D">>)>>
    /\ Len(ExternNode.items) = 2

----------------------------------------------------------------------------
(* SpecBuffer: the calls of self.peek() and self.consume() a production    *)
(* can make on a parser, in any order.  Every call site hands an Err to    *)
(* its caller (`?`) or panics on it (expect), and parse_crate returns on   *)
(* it, so no call follows a call that failed.  outcome holds the parser,   *)
(* the last call and its result, the same of the call before it, and the   *)
(* tokens consume has returned.                                            *)

BufferChars == {"a", "=", " ", "\""}

\* the longest file of SpecBuffer
MaxBufferChars == 3

\* the most calls made on one parser
MaxCalls == 4

BufferSources == UNION {[1..n -> BufferChars] : n \in 0..MaxBufferChars}

InitBuffer ==
    /\ source \in BufferSources
    /\ pc = "buffer"
    /\ lexer = NoLexer
    /\ pulled = <<>>
    /\ outcome = [p |-> Parser_new(source), op |-> "new", calls |-> 0,
                  consumed |-> <<>>]
    /\ query = NoQuery
    /\ plan = [kind |-> "buffer"]

\* a call can be made: none has failed, and the bound is not reached
CanCall ==
    /\ pc = "buffer"
    /\ outcome.calls < MaxCalls
    /\ outcome.op /= "new" => outcome.res.ok

\* what outcome keeps of the call before
Before == [p |-> outcome.p, op |-> outcome.op,
           res |-> IF outcome.op = "new" THEN <<>> ELSE outcome.res]

\* self.peek()
Peek ==
    /\ CanCall
    /\ outcome' = With([r \in {peek(outcome.p)} |->
                    [p |-> r.p, op |-> "peek", calls |-> outcome.calls + 1,
                     res |-> IF r.ok THEN [ok |-> TRUE, val |-> r.val]
                             ELSE [ok |-> FALSE, err |-> r.err],
                     before |-> Before, consumed |-> outcome.consumed]])
    /\ UNCHANGED <<source, pc, lexer, pulled, query, plan>>

\* self.consume()
Consume ==
    /\ CanCall
    /\ outcome' = With([r \in {consume(outcome.p)} |->
                    [p |-> r.p, op |-> "consume", calls |-> outcome.calls + 1,
                     res |-> IF r.ok THEN [ok |-> TRUE, val |-> r.val]
                             ELSE [ok |-> FALSE, err |-> r.err],
                     before |-> Before,
                     consumed |-> IF r.ok THEN Append(outcome.consumed, r.val)
                                  ELSE outcome.consumed]])
    /\ UNCHANGED <<source, pc, lexer, pulled, query, plan>>

NextBuffer == Peek \/ Consume

SpecBuffer == InitBuffer /\ [][NextBuffer]_vars

\* the tokens among the outcomes of pulls
RECURSIVE TokensOf(_)
TokensOf(outs) ==
    IF outs = <<>> THEN <<>>
    ELSE (IF Head(outs).kind = "Some" THEN <<Head(outs).tok>> ELSE <<>>)
         \o TokensOf(Tail(outs))

\* a call has been made on the parser of SpecBuffer
Called == pc = "buffer" /\ outcome.op /= "new"

\* the call before the last one was a peek that returned a token
AfterPeek == Called /\ outcome.before.op = "peek" /\ outcome.before.res.ok

\* what a call returned, without the parser
Returned(r) == IF r.ok THEN [ok |-> TRUE, val |-> r.val] ELSE [ok |-> FALSE, err |-> r.err]

\* C17: the parser reads the tokens through a buffer of one token.  A peek
\* that returns a token leaves the next consume what it was; a peek after
\* such a peek returns the same token and changes nothing in the parser; a
\* consume after such a peek returns that token and no error; the tokens
\* pulled from the lexer are the tokens consumed and, at most, the one token
\* in the buffer.
C17_OneTokenBuffer ==
    Called
    => /\ (outcome.op = "peek" /\ outcome.res.ok)
          => /\ Returned(consume(outcome.before.p)) = outcome.res
             /\ Returned(consume(outcome.p)) = outcome.res
       /\ (AfterPeek /\ outcome.op = "peek")
          => /\ outcome.res = outcome.before.res
             /\ outcome.p = outcome.before.p
       /\ (AfterPeek /\ outcome.op = "consume")
          => /\ outcome.res = outcome.before.res
             /\ outcome.p.lexer = outcome.before.p.lexer
             /\ outcome.p.pulled = outcome.before.p.pulled
       /\ Len(outcome.p.peeked) <= 1
       /\ TokensOf(outcome.p.pulled) = outcome.consumed \o TokensOf(outcome.p.peeked)
       /\ Len(TokensOf(outcome.p.pulled)) <= Len(outcome.consumed) + 1

\* `a=`: peek, peek, consume return the identifier three times, and the
\* lexer has been pulled once
C17_Witness ==
    /\ AfterPeek /\ outcome.op = "consume" /\ outcome.calls = 3
    /\ source = <<"a", "=">>
    /\ outcome.res.val.ty = "Ident"
    /\ outcome.consumed = <<outcome.res.val>>
    /\ Len(outcome.p.pulled) = 1
    /\ outcome.p.peeked = <<>>

----------------------------------------------------------------------------
(* SpecSymbols: pulling the tokens of files made of the characters of the  *)
(* two-character symbols and of blanks.                                    *)

SymbolChars == {"-", ">", "&", "|", "=", "!", "<", " "}

\* the longest file of SpecSymbols
MaxSymbolChars == 3

SymbolSources == UNION {[1..n -> SymbolChars] : n \in 0..MaxSymbolChars}

InitSymbols ==
    /\ source \in SymbolSources
    /\ pc = "lexing"
    /\ lexer = Lexer_new(source)
    /\ pulled = <<>>
    /\ outcome = NoResult
    /\ query = NoQuery
    /\ plan = [kind |-> "symbols"]

NextSymbols == LexerNext

SpecSymbols == InitSymbols /\ [][NextSymbols]_vars

\* the token type of the symbol the characters c, n spell, "" if none
PairKind(c, n) ==
    CASE c = "-" /\ n = ">" -> "Arrow"
      [] c = "&" /\ n = "&" -> "And"
      [] c = "|" /\ n = "|" -> "Or"
      [] c = "=" /\ n = "=" -> "Eq"
      [] c = "!" /\ n = "=" -> "Ne"
      [] c = "<" /\ n = "=" -> "Le"
      [] c = ">" /\ n = "=" -> "Ge"
      [] OTHER -> ""

\* the token type of the symbol the character c spells
SingleKind(c) ==
    CASE c = "-" -> "Minus"
      [] c = ">" -> "Gt"
      [] c = "&" -> "BitAnd"
      [] c = "|" -> "BitOr"
      [] c = "=" -> "Assign"
      [] c = "!" -> "Not"
      [] c = "<" -> "Lt"

\* the tokens pulled so far, without the EOF token
PulledTokens == SelectSeq(TokensOf(pulled), LAMBDA t : ~is_eof(t))

\* the first column from col on that holds no blank (one past the end of
\* the line if there is none)
RECURSIVE SkipBlanks(_)
SkipBlanks(col) ==
    IF col <= Len(source) /\ source[col] = " " THEN SkipBlanks(col + 1) ELSE col

\* the columns a token covers
StartCol(t) == t.span.start.column
EndCol(t) == t.span.end.column

\* C18: on a line of symbol characters every pull returns a token; a token
\* starts at the first character that is not a blank after the token before
\* it; where the character it starts at and the next one spell `->`, `&&`,
\* `||`, `==`, `!=`, `<=` or `>=` the token is that symbol and spans both
\* characters, and else it is the symbol of the one character and spans it.
C18_TwoCharacterFirst ==
    (pc = "lexing" /\ plan.kind = "symbols")
    => /\ \A k \in 1..Len(pulled) : pulled[k].kind /= "Err"
       /\ \A k \in 1..Len(PulledTokens) :
             LET t == PulledTokens[k]
                 col == StartCol(t)
                 pair == IF col < Len(source) THEN PairKind(source[col], source[col + 1])
                         ELSE ""
             IN /\ col = SkipBlanks(IF k = 1 THEN 1 ELSE EndCol(PulledTokens[k - 1]))
                /\ col <= Len(source)
                /\ IF pair /= ""
                   THEN t.ty = pair /\ EndCol(t) = col + 2
                   ELSE t.ty = SingleKind(source[col]) /\ EndCol(t) = col + 1
       /\ lexer.finished => SkipBlanks(IF PulledTokens = <<>> THEN 1
                                       ELSE EndCol(PulledTokens[Len(PulledTokens)]))
                            = Len(source) + 1

\* `===` has been lexed to the end: Eq over the first two characters, then
\* Assign
C18_Witness ==
    /\ pc = "lexing" /\ plan.kind = "symbols" /\ lexer.finished
    /\ source = <<"=", "=", "=">>
    /\ Len(PulledTokens) = 2
    /\ PulledTokens[1].ty = "Eq" /\ StartCol(PulledTokens[1]) = 1 /\ EndCol(PulledTokens[1]) = 3
    /\ PulledTokens[2].ty = "Assign" /\ StartCol(PulledTokens[2]) = 3

----------------------------------------------------------------------------
(* SpecNumbers: pulling the tokens of files made of a digit, a dot, a      *)
(* letter and blanks.                                                      *)

NumberChars == {"1", ".", "a", " "}

\* the longest file of SpecNumbers
MaxNumberChars == 5

NumberSources == UNION {[1..n -> NumberChars] : n \in 0..MaxNumberChars}

InitNumbers ==
    /\ source \in NumberSources
    /\ pc = "lexing"
    /\ lexer = Lexer_new(source)
    /\ pulled = <<>>
    /\ outcome = NoResult
    /\ query = NoQuery
    /\ plan = [kind |-> "numbers"]

NextNumbers == LexerNext

SpecNumbers == InitNumbers /\ [][NextNumbers]_vars

\* the first column from col on that holds no digit
RECURSIVE SkipDigits(_)
SkipDigits(col) ==
    IF col <= Len(source) /\ is_digit(source[col]) THEN SkipDigits(col + 1) ELSE col

\* one past the number that starts at col: the digits and, if a dot
\* follows them, the dot and the digits after it
NumberEnd(col) ==
    LET dot == SkipDigits(col)
    IN IF dot <= Len(source) /\ source[dot] = "." THEN SkipDigits(dot + 1) ELSE dot

\* the number that starts at col holds a dot
NumberHasDot(col) == SkipDigits(col) < NumberEnd(col)

\* the span of what a pull returned, a token or an error
OutcomeSpan(o) == IF o.kind = "Some" THEN o.tok.span ELSE o.err.span

\* the pulls that started at a digit
DigitPulls ==
    {k \in 1..Len(pulled) :
        /\ pulled[k].kind \in {"Some", "Err"}
        /\ OutcomeSpan(pulled[k]).start.column <= Len(source)
        /\ is_digit(source[OutcomeSpan(pulled[k]).start.column])}

\* C19: a pull that starts at a digit returns one token that covers the
\* digits from there and, if a dot follows them, the dot and the digits
\* after it, and nothing else: IntLit without a dot, FloatLit with one.
C19_NumberIsDigitsAndOneDot ==
    (pc = "lexing" /\ plan.kind = "numbers")
    => \A k \in DigitPulls :
          LET col == OutcomeSpan(pulled[k]).start.column
          IN /\ pulled[k].kind = "Some"
             /\ pulled[k].tok.ty = (IF NumberHasDot(col) THEN "FloatLit" ELSE "IntLit")
             /\ OutcomeSpan(pulled[k]).end.column = NumberEnd(col)
             /\ pulled[k].tok.val = SubSeq(source, col, NumberEnd(col) - 1)

\* what the lexer does: the pull takes the digits, letters, `_` and dots from
\* there on, all in one, and is an error when that text is no number
C19_NumberTakesLettersAndDots ==
    (pc = "lexing" /\ plan.kind = "numbers")
    => \A k \in DigitPulls :
          LET col == OutcomeSpan(pulled[k]).start.column
              end == OutcomeSpan(pulled[k]).end.column
              text == SubSeq(source, col, end - 1)
          IN /\ \A i \in col..(end - 1) : source[i] \in XidContinue \cup {"."}
             /\ end <= Len(source) => source[end] \notin XidContinue \cup {"."}
             /\ IF pulled[k].kind = "Some"
                THEN /\ pulled[k].tok.val = text
                     /\ pulled[k].tok.ty \in {"IntLit", "FloatLit"}
                ELSE /\ pulled[k].err.text = text
                     /\ pulled[k].err.kind \in {"InvalidIntLiteral", "InvalidFloatLiteral"}
                     /\ end > NumberEnd(col)

\* `1a` is one InvalidIntLiteral error over both characters
C19_LetterInNumberWitness ==
    /\ pc = "lexing" /\ plan.kind = "numbers"
    /\ source = <<"1", "a">>
    /\ Len(pulled) = 2
    /\ pulled[1].kind = "Err" /\ pulled[1].err.kind = "InvalidIntLiteral"
    /\ pulled[1].err.text = <<"1", "a">>
    /\ pulled[2].kind = "Some" /\ is_eof(pulled[2].tok)

\* `1.1.1` is one InvalidFloatLiteral error over the five characters
C19_SecondDotWitness ==
    /\ pc = "lexing" /\ plan.kind = "numbers"
    /\ source = <<"1", ".", "1", ".", "1">>
    /\ Len(pulled) >= 1
    /\ pulled[1].kind = "Err" /\ pulled[1].err.kind = "InvalidFloatLiteral"
    /\ pulled[1].err.span.end.column = 6

----------------------------------------------------------------------------
(* SpecStrings: pulling the tokens of files made of quotes, backslashes    *)
(* and a letter.                                                           *)

StringChars == {"\"", "\\", "a"}

\* the longest file of SpecStrings
MaxStringChars == 6

StringSources == UNION {[1..n -> StringChars] : n \in 0..MaxStringChars}

InitStrings ==
    /\ source \in StringSources
    /\ pc = "lexing"
    /\ lexer = Lexer_new(source)
    /\ pulled = <<>>
    /\ outcome = NoResult
    /\ query = NoQuery
    /\ plan = [kind |-> "strings"]

NextStrings == LexerNext

SpecStrings == InitStrings /\ [][NextStrings]_vars

\* the column of the first quote from col on that no backslash escapes,
\* where a backslash escapes the one character after it; 0 if the file ends
\* before such a quote
RECURSIVE ClosingQuote(_)
ClosingQuote(col) ==
    IF col > Len(source) THEN 0
    ELSE IF source[col] = "\\" THEN ClosingQuote(col + 2)
    ELSE IF source[col] = "\"" THEN col
    ELSE ClosingQuote(col + 1)

\* the pulls that started at a quote
QuotePulls ==
    {k \in 1..Len(pulled) :
        /\ pulled[k].kind \in {"Some", "Err"}
        /\ OutcomeSpan(pulled[k]).start.column <= Len(source)
        /\ source[OutcomeSpan(pulled[k]).start.column] = "\""}

\* C20: a pull that starts at a quote returns one Abi token that ends with
\* the first quote after it that no backslash escapes, and holds the text in
\* between, a backslash escaping the one character after it; it returns
\* UnterminatedStringLiteral exactly when the file ends before such a quote.
C20_StringEndsAtUnescapedQuote ==
    (pc = "lexing" /\ plan.kind = "strings")
    => \A k \in QuotePulls :
          LET col == OutcomeSpan(pulled[k]).start.column
              close == ClosingQuote(col + 1)
          IN IF close = 0
             THEN /\ pulled[k].kind = "Err"
                  /\ pulled[k].err.kind = "UnterminatedStringLiteral"
             ELSE /\ pulled[k].kind = "Some"
                  /\ pulled[k].tok.ty = "Abi"
                  /\ pulled[k].tok.val = SubSeq(source, col + 1, close - 1)
                  /\ pulled[k].tok.span.end.column = close + 1

\* the characters from col up to to hold an odd number of backslashes
RECURSIVE OddBackslashes(_, _)
OddBackslashes(col, to) ==
    IF col > to THEN FALSE
    ELSE (source[col] = "\\") /= OddBackslashes(col + 1, to)

\* what the lexer does: the string ends with the first quote that an even
\* number of backslashes comes before, anywhere in the string
C20_StringEndsAfterEvenBackslashes ==
    (pc = "lexing" /\ plan.kind = "strings")
    => \A k \in QuotePulls :
          LET col == OutcomeSpan(pulled[k]).start.column
              closes == {c \in (col + 1)..Len(source) :
                            source[c] = "\"" /\ ~OddBackslashes(col + 1, c - 1)}
          IN IF closes = {}
             THEN /\ pulled[k].kind = "Err"
                  /\ pulled[k].err.kind = "UnterminatedStringLiteral"
                  /\ pulled[k].err.span.end.column = Len(source) + 1
             ELSE LET close == CHOOSE c \in closes : \A d \in closes : c <= d
                  IN /\ pulled[k].kind = "Some"
                     /\ pulled[k].tok.ty = "Abi"
                     /\ pulled[k].tok.val = SubSeq(source, col + 1, close - 1)
                     /\ pulled[k].tok.span.end.column = close + 1

\* `"a\aa"`, a string with one escaped letter, is not closed by its last
\* quote: the pull is an UnterminatedStringLiteral error
C20_EscapeStaysWitness ==
    /\ pc = "lexing" /\ plan.kind = "strings"
    /\ source = <<"\"", "a", "\\", "a", "a", "\"">>
    /\ Len(pulled) >= 1
    /\ pulled[1].kind = "Err" /\ pulled[1].err.kind = "UnterminatedStringLiteral"
    /\ ClosingQuote(2) = 6

----------------------------------------------------------------------------
(* The position of the lexer of SpecLex against the characters it has      *)
(* consumed.                                                               *)

\* the characters the lexer has consumed so far
ConsumedText == SubSeq(source, 1, Len(source) - Len(lexer.rest))

\* the indices of the new lines in a text
NewLinesIn(text) == {i \in 1..Len(text) : is_new_line(text[i])}

\* the position after a text: one line per new line in it, one column per
\* character after the last new line
PositionAfter(text) ==
    LET nl == NewLinesIn(text)
        last == IF nl = {} THEN 0 ELSE CHOOSE i \in nl : \A j \in nl : j <= i
    IN [line |-> 1 + Cardinality(nl), column |-> 1 + Len(text) - last]

\* C21: after any number of pulls the position of the lexer is the line and
\* the column after the characters consumed so far: 1 + the new lines among
\* them, 1 + the characters after the last of these, wherever the new lines
\* are (in whitespace, after a comment, in a string literal).
C21_PositionTracksNewLines ==
    (pc = "lexing" /\ plan.kind = "text")
    => lexer.position = PositionAfter(ConsumedText)

\* what the lexer does: the position is that one as long as the file holds
\* no quote, and it never moves backwards
C21_PositionOutsideStrings ==
    (pc = "lexing" /\ plan.kind = "text")
    => /\ (\A i \in 1..Len(source) : source[i] /= "\"")
          => lexer.position = PositionAfter(ConsumedText)
       /\ \A k \in 1..Len(pulled) :
             pulled[k].kind \in {"Some", "Err"}
             => /\ PosLe(OutcomeSpan(pulled[k]).start, OutcomeSpan(pulled[k]).end)
                /\ PosLe(OutcomeSpan(pulled[k]).end, lexer.position)

\* a string literal that holds a new line has been lexed: the lexer is
\* still on line 1, in column 4
C21_NewLineInStringWitness ==
    /\ pc = "lexing" /\ plan.kind = "text"
    /\ source = <<"\"", "\n", "\"">>
    /\ Len(pulled) = 1 /\ pulled[1].kind = "Some" /\ pulled[1].tok.ty = "Abi"
    /\ lexer.position = [line |-> 1, column |-> 4]
    /\ PositionAfter(ConsumedText) = [line |-> 2, column |-> 2]

----------------------------------------------------------------------------
(* SpecSpans: files of one function, written on one line.  The plan names  *)
(* the parameters and the let statements of its body, by their index in    *)
(* ParamTexts and LetTexts.                                                *)

ParamTexts ==
    <<
      (* a:i32 *)
       <<"a", ":", "i", "3", "2">>,
      (* mut b:i32 *)
       <<"m", "u", "t", " ", "b", ":", "i", "3", "2">>,
      (* _:i32 *)
       <<"_", ":", "i", "3", "2">>>>

\* the first and the last column of the pattern and of the type in the text
\* of a parameter
ParamPattern == <<<<1, 1>>, <<5, 5>>, <<1, 1>>>>
ParamType == <<<<3, 5>>, <<7, 9>>, <<3, 5>>>>

LetTexts ==
    <<
      (* let x:i32=1; *)
       <<"l", "e", "t", " ", "x", ":", "i", "3", "2", "=", "1", ";">>,
      (* let mut yy:i32; *)
       <<"l", "e", "t", " ", "m", "u", "t", " ", "y", "y", ":", "i", "3", "2", ";">>,
      (* let x:i32=a+b; *)
       <<"l", "e", "t", " ", "x", ":", "i", "3", "2", "=", "a", "+", "b", ";">>,
      (* let x:i32=_; *)
       <<"l", "e", "t", " ", "x", ":", "i", "3", "2", "=", "_", ";">>>>

\* the first and the last column of the pattern in the text of a let
\* statement
LetPattern == <<<<5, 5>>, <<9, 10>>, <<5, 5>>, <<5, 5>>>>

\* the most parameters and the most let statements of the function
MaxParams == 2
MaxLets == 2

SpanPlans ==
    [params : UNION {[1..n -> 1..Len(ParamTexts)] : n \in 0..MaxParams},
     lets : UNION {[1..n -> 1..Len(LetTexts)] : n \in 0..MaxLets}]

\* the parameters from the i-th on, with the commas between them
RECURSIVE ParamList(_, _)
ParamList(params, i) ==
    IF i > Len(params) THEN <<>>
    ELSE ParamTexts[params[i]]
         \o (IF i < Len(params) THEN <<",">> ELSE <<>>)
         \o ParamList(params, i + 1)

SpanFile(e) ==
    <<"f", "n", " ", "f", "(">> \o ParamList(e.params, 1) \o <<")", "{">>
    \o Concat([j \in 1..Len(e.lets) |-> LetTexts[e.lets[j]]]) \o <<"}">>

InitSpans ==
    /\ \E e \in SpanPlans :
          /\ source = SpanFile(e)
          /\ plan = [kind |-> "spans", params |-> e.params, lets |-> e.lets]
    /\ pc = "new"
    /\ lexer = NoLexer
    /\ pulled = <<>>
    /\ outcome = NoResult
    /\ query = NoQuery

NextSpans == Parse

SpecSpans == InitSpans /\ [][NextSpans]_vars

\* the column at which parameter i of the plan starts
ParamStart(i) ==
    6 + Len(Concat([k \in 1..(i - 1) |-> ParamTexts[plan.params[k]] \o <<",">>]))

\* the column at which let statement j of the plan starts
LetStart(j) ==
    8 + Len(ParamList(plan.params, 1))
    + Len(Concat([k \in 1..(j - 1) |-> LetTexts[plan.lets[k]]]))

\* the span of the columns first..last, counted from column at
Extent(at, first, last) ==
    Span_new([line |-> 1, column |-> at + first - 1], [line |-> 1, column |-> at + last])

\* the function parsed, its parameters and the statements of its body
SpanFunc == outcome.items.val[1]
SpanParams == SpanFunc.proto.params
SpanLets == SpanFunc.body.statements

\* C22: a node spans its own text, from the start of its first token to the
\* end of its last one: the function, its prototype and its body; a
\* parameter, from its `mut` or pattern to the end of its type, its pattern
\* and its type; a let statement, from `let` to its `;`, and the path built
\* for its pattern, the identifier only.
C22_SpanIsOwnExtent ==
    (Parsed /\ plan.kind = "spans")
    => /\ outcome.ok
       /\ SpanFunc.span = Extent(1, 1, Len(source))
       /\ SpanFunc.proto.span = Extent(1, 1, 6 + Len(ParamList(plan.params, 1)))
       /\ SpanFunc.body.span = Extent(1, 7 + Len(ParamList(plan.params, 1)), Len(source))
       /\ Len(SpanParams) = Len(plan.params)
       /\ \A i \in 1..Len(plan.params) :
             LET k == plan.params[i]
             IN /\ SpanParams[i].span = Extent(ParamStart(i), 1, Len(ParamTexts[k]))
                /\ SpanParams[i].assignee.span
                     = Extent(ParamStart(i), ParamPattern[k][1], ParamPattern[k][2])
                /\ SpanParams[i].ty.span
                     = Extent(ParamStart(i), ParamType[k][1], ParamType[k][2])
       /\ Len(SpanLets) = Len(plan.lets)
       /\ \A j \in 1..Len(plan.lets) :
             LET k == plan.lets[j]
             IN /\ SpanLets[j].span = Extent(LetStart(j), 1, Len(LetTexts[k]))
                /\ SpanLets[j].decl.span
                     = Extent(LetStart(j), LetPattern[k][1], LetPattern[k][2])

\* what the parser does: the path of a let statement has the span of the
\* whole statement, and a parameter has the span of its pattern alone; the
\* other nodes span their own text
C22_SpansAsBuilt ==
    (Parsed /\ plan.kind = "spans")
    => /\ outcome.ok
       /\ SpanFunc.span = Extent(1, 1, Len(source))
       /\ SpanFunc.proto.span = Extent(1, 1, 6 + Len(ParamList(plan.params, 1)))
       /\ SpanFunc.body.span = Extent(1, 7 + Len(ParamList(plan.params, 1)), Len(source))
       /\ \A i \in 1..Len(plan.params) :
             LET k == plan.params[i]
             IN /\ SpanParams[i].span = SpanParams[i].assignee.span
                /\ SpanParams[i].assignee.span
                     = Extent(ParamStart(i), ParamPattern[k][1], ParamPattern[k][2])
                /\ SpanParams[i].ty.span
                     = Extent(ParamStart(i), ParamType[k][1], ParamType[k][2])
       /\ \A j \in 1..Len(plan.lets) :
             LET k == plan.lets[j]
             IN /\ SpanLets[j].span = Extent(LetStart(j), 1, Len(LetTexts[k]))
                /\ SpanLets[j].decl.span = SpanLets[j].span
                /\ SpanLets[j].value /= <<>>
                   => SpanLets[j].value[1].span
                        = Extent(LetStart(j), 11, Len(LetTexts[k]) - 1)

\* `fn f(mut b:i32){let mut yy:i32;}`: the parameter spans `b` and not
\* `mut b:i32`, the path of the let statement spans the statement and not `yy`
C22_WrongSpanWitness ==
    /\ Parsed /\ plan.kind = "spans" /\ outcome.ok
    /\ plan.params = <<2>> /\ plan.lets = <<2>>
    /\ SpanParams[1].span = Extent(6, 5, 5)
    /\ SpanParams[1].ty.span = Extent(6, 7, 9)
    /\ SpanLets[1].decl.span = Extent(17, 1, 15)
    /\ SpanLets[1].decl.path = <<"y", "y">>

----------------------------------------------------------------------------
(* Expressions with a block as statements, in the blocks of SpecBlock.     *)

\* the elements that are an expression with a block, written without `;`
BlockLike == {i \in 1..Len(ElementTexts) : ElementTexts[i][Len(ElementTexts[i])] = "}"}

\* the elements of a block that are statements when an expression with a
\* block needs no `;`
StatementsWithBlocks(b) ==
    {i \in 1..Len(b) : \/ KindAt(b, i) \in {"stmt", "let"}
                       \/ (b[i] \in BlockLike /\ i < Len(b))}

\* C23: a block in which the only expressions written without a `;` before
\* the last element are expressions with a block is parsed without a fatal
\* error, and each of these expressions is in the statement list of the
\* block, as are the statements after it.
C23_BlockLikeNeedsNoSemi ==
    (/\ Parsed /\ plan.kind = "block"
     /\ \A i \in 1..(Len(plan.elements) - 1) :
           KindAt(plan.elements, i) = "tail" => plan.elements[i] \in BlockLike)
    => /\ outcome.items.ok
       /\ Len(outcome.items.val[1].body.statements)
            = Cardinality(StatementsWithBlocks(plan.elements))

\* what the parser does: an expression with a block and no `;` is the tail
\* of its block like any other, so a block with one before its last element
\* stops the parse with UnexpectedToken
C23_BlockLikeIsTail ==
    (/\ Parsed /\ plan.kind = "block"
     /\ \E i \in 1..(Len(plan.elements) - 1) :
           KindAt(plan.elements, i) = "tail" /\ plan.elements[i] \in BlockLike)
    => /\ Fatal
       /\ outcome.err.kind = "UnexpectedToken"

\* `fn f(){ if a{} let x:i32=1;}` stops at the `let`
C23_FatalAfterIfWitness ==
    /\ Parsed /\ plan.kind = "block"
    /\ plan.elements = <<7, 3>>
    /\ Fatal
    /\ outcome.err.kind = "UnexpectedToken"
    /\ outcome.err.actual.ty = "Let"

----------------------------------------------------------------------------
(* The underscore in the files of SpecSpans: the pattern of a parameter    *)
(* `_:i32` and the value of `let x:i32=_;`.                                *)

\* the parameters and the let statements of the plan that hold a `_`
UnderscoreParams == {i \in 1..Len(plan.params) : plan.params[i] = 3}
UnderscoreLets == {j \in 1..Len(plan.lets) : plan.lets[j] = 4}

\* the tokens of the file, from a lexer of its own, that are the text `_`
UnderscoreTokens ==
    {t \in SourceTokens : /\ t.span.start.column <= Len(source)
                          /\ source[t.span.start.column] = "_"}

\* C24: a `_` is lexed as an Underscore token and not as an identifier, so
\* a `_` written as the pattern of a parameter or as an expression is built
\* as an UnderscoreASTNode, not as a path named `_`.
C24_UnderscoreIsItsOwnToken ==
    (Parsed /\ plan.kind = "spans")
    => /\ \A t \in UnderscoreTokens : t.ty = "Underscore"
       /\ outcome.ok
       /\ \A i \in UnderscoreParams : SpanParams[i].assignee.node = "Underscore"
       /\ \A j \in UnderscoreLets : SpanLets[j].value[1].node = "Underscore"

\* what the lexer and the parser do: `_` is the identifier `_`, and the
\* node built for it is a path of that name
C24_UnderscoreIsIdent ==
    (Parsed /\ plan.kind = "spans")
    => /\ \A t \in UnderscoreTokens : t.ty = "Ident" /\ t.val = <<"_">>
       /\ outcome.ok
       /\ \A i \in UnderscoreParams :
             SpanParams[i].assignee.node = "Path" /\ SpanParams[i].assignee.path = <<"_">>
       /\ \A j \in UnderscoreLets :
             SpanLets[j].value[1].node = "Path" /\ SpanLets[j].value[1].path = <<"_">>

\* `fn f(_:i32){let x:i32=_;}`: two paths named `_`, each of which is a
\* place, a value and an assignee
C24_PathNamedUnderscoreWitness ==
    /\ Parsed /\ plan.kind = "spans" /\ outcome.ok
    /\ plan.params = <<3>> /\ plan.lets = <<4>>
    /\ SpanParams[1].assignee = PathASTNode_new(<<"_">>, Extent(6, 1, 1))
    /\ SpanLets[1].value[1].node = "Path"
    /\ try_as_place(SpanLets[1].value[1]) /= <<>>
    /\ try_as_value(SpanLets[1].value[1]) /= <<>>

----------------------------------------------------------------------------
(* A let statement with an initializer, without its `;`, before the `}` of *)
(* the block, in the files of SpecEndings.                                 *)

\* the let statement of the plan has an initializer and no `;`, and the
\* next token is the `}` of the block, right after it or after a blank
LetBeforeRBra ==
    /\ Parsed /\ plan.kind = "ending"
    /\ plan.construct = "let" /\ plan.init /\ ~plan.semi
    /\ FnFollowers[plan.next] \in {<<"}">>, <<" ", "}">>}

\* the position right after the text of the construct of the plan
EndingEnd == [line |-> 1, column |-> Len(EndingOpen[plan.context]) + Len(EndingText(plan)) + 1]

\* C25: a let statement with an initializer that lacks its `;` before a `}`
\* records exactly one MissingToken(Semi, p), p the end of the initializer;
\* the let node is built with a span that ends at p, the `}` is left to the
\* block, which it closes, and parse() returns Aggregated with that one
\* error.
C25_LetBeforeRBraRecovered ==
    LetBeforeRBra
    => LET body == outcome.items.val[1].body
       IN /\ Recorded = <<MissingToken("Semi", EndingEnd)>>
          /\ outcome.items.ok
          /\ Len(body.statements) = 1
          /\ body.statements[1].node = "Let"
          /\ body.statements[1].value[1].span.end = EndingEnd
          /\ body.statements[1].span
               = Span_new([line |-> 1, column |-> Len(EndingOpen.fn) + 1], EndingEnd)
          /\ body.return_expr = <<>>
          /\ body.span.end = [line |-> 1, column |-> Len(source) + 1]
          /\ ~outcome.ok
          /\ outcome.err = Aggregated(<<MissingToken("Semi", EndingEnd)>>)

\* `fn f(){let mut x:i32=1 }`: the error is at column 23, the `}` at 24
C25_Witness ==
    /\ LetBeforeRBra /\ plan.mut /\ FnFollowers[plan.next] = <<" ", "}">>
    /\ Recorded = <<MissingToken("Semi", [line |-> 1, column |-> 23])>>
    /\ outcome.err.kind = "Aggregated"
    /\ outcome.items.val[1].body.span.end.column = 25

----------------------------------------------------------------------------
(* The end of the token stream in the parses of SpecItems.                 *)

\* what the parser has pulled from the lexer, in order
ParserPulled == outcome.p.pulled

\* the outcome of a pull is the EOF token
IsEofPull(o) == o.kind = "Some" /\ is_eof(o.tok)

\* C26: parse() never returns UnexpectedEOF and never panics in
\* parse_crate.  The parser pulls nothing after the EOF token, so no pull
\* of it meets the end of the stream; a fatal error of a parse that got to
\* the EOF token is UnexpectedToken with the EOF token as `actual`; and
\* when parse_items returns Ok the token in the buffer is the EOF token.
C26_NeverUnexpectedEOF ==
    (Parsed /\ plan.kind = "items")
    => /\ ~outcome.ok => outcome.err.kind \notin {"UnexpectedEOF", "Panic"}
       /\ \A k \in 1..Len(ParserPulled) :
             /\ ParserPulled[k].kind /= "None"
             /\ IsEofPull(ParserPulled[k]) => k = Len(ParserPulled)
       /\ (~outcome.items.ok /\ ParserPulled /= <<>>
           /\ IsEofPull(ParserPulled[Len(ParserPulled)]))
          => /\ outcome.err.kind = "UnexpectedToken"
             /\ is_eof(outcome.err.actual)
       /\ outcome.items.ok
          => /\ Len(outcome.items.p.peeked) = 1
             /\ IsEofPull(outcome.items.p.peeked[1])
       /\ outcome.ok => /\ IsEofPull(ParserPulled[Len(ParserPulled)])
                        /\ outcome.p.peeked = <<>>

\* a file cut off inside an item: the error is UnexpectedToken on the EOF
\* token
C26_Witness ==
    /\ Parsed /\ plan.kind = "items"
    /\ source = <<"f", "n", " ", "f", "(", ")", "{">>
    /\ Fatal
    /\ outcome.err.kind = "UnexpectedToken"
    /\ is_eof(outcome.err.actual)
    /\ outcome.err.actual.span.start.column = 8

----------------------------------------------------------------------------
(* The progress of the pulls of SpecLex.                                   *)

\* the number of characters a lexer has consumed
ConsumedBy(lx) == Len(source) - Len(lx.rest)

\* what one pull of SpecLex does: a token other than EOF and an error come
\* with at least one character consumed and leave the sequence unfinished,
\* an error is returned right after the text it reports, the EOF token
\* finishes the sequence, and Ok(None) changes nothing
PullMakesProgress ==
    (pc = "lexing" /\ plan.kind = "text" /\ pulled' /= pulled)
    => LET out == pulled'[Len(pulled')]
       IN /\ (out.kind = "Err" \/ (out.kind = "Some" /\ ~is_eof(out.tok)))
             => /\ Len(lexer'.rest) < Len(lexer.rest)
                /\ ~lexer'.finished
          /\ out.kind = "Err"
             => /\ Len(out.err.text) <= ConsumedBy(lexer') - ConsumedBy(lexer)
                /\ SubSeq(source, ConsumedBy(lexer') - Len(out.err.text) + 1,
                          ConsumedBy(lexer')) = out.err.text
          /\ (out.kind = "Some" /\ is_eof(out.tok))
             => lexer'.finished /\ lexer'.rest = <<>>
          /\ out.kind = "None" => lexer' = lexer /\ lexer.finished

\* the pulls of SpecLex end: by the pull after one pull per character the
\* EOF token has been returned, and every pull after it returns Ok(None)
PullsEndInEOF ==
    (pc = "lexing" /\ plan.kind = "text" /\ Len(pulled) > Len(source))
    => \E k \in 1..(Len(source) + 1) :
          /\ EofAt(k)
          /\ \A j \in (k + 1)..Len(pulled) : pulled[j].kind = "None"

\* C27: repeated pulls on the lexer of a finite file end in EOF, also after
\* lexical errors: a pull that returns a token other than EOF or an error
\* has consumed at least one character, an error does not finish the
\* sequence and the next pull goes on right after the text it reports, so
\* the EOF token is returned after at most one pull per character, and
\* Ok(None) by every pull after it.
C27_PullsTerminate == []PullsEndInEOF /\ [][PullMakesProgress]_vars

\* `."a`: an UnknownToken error, an UnterminatedStringLiteral error, the EOF
\* token, and Ok(None) twice
C27_Witness ==
    /\ pc = "lexing" /\ plan.kind = "text"
    /\ source = <<".", "\"", "a">>
    /\ Len(pulled) = 5
    /\ pulled[1].kind = "Err" /\ pulled[1].err.kind = "UnknownToken"
    /\ pulled[2].kind = "Err" /\ pulled[2].err.kind = "UnterminatedStringLiteral"
    /\ EofAt(3)
    /\ pulled[4] = None /\ pulled[5] = None

----------------------------------------------------------------------------
(* The characters of the file (src/src/lexer/file_reader.rs) and the Lexer *)
(* on top of them.  A FileReaderIter is [reads, buffer, buffer_index,      *)
(* retries]: what the calls of read_line still to come will return, in     *)
(* order (after them read_line returns Ok(0), the end of the file), and    *)
(* the three fields of the struct.  The lexer's iter is a Peekable of it,  *)
(* [iter, peeked]: peeked is <<>> when nothing is buffered and <<x>> when  *)
(* the Option x is.  An Option<char> is <<>> or <<c>>.                     *)

\* RETRY_LIMIT of FileReaderIter::next
RETRY_LIMIT == 10

\* what a call of read_line returns: a line, ErrorKind::Interrupted, or an
\* error of another kind
LineRead(text) == [kind |-> "Line", text |-> text]
InterruptedRead == [kind |-> "Interrupted"]
OtherRead == [kind |-> "Other"]

\* FileReaderIter::new, on a file whose reads are given
FileReaderIter_new(reads) ==
    [reads |-> reads, buffer |-> <<>>, buffer_index |-> 0, retries |-> 0]

RECURSIVE FileReaderIter_next(_)
\* <FileReaderIter as Iterator>::next; returns the iterator and the Option
FileReaderIter_next(r) ==
    IF r.buffer_index < Len(r.buffer)
    THEN [r |-> [r EXCEPT !.buffer_index = @ + 1], c |-> <<r.buffer[r.buffer_index + 1]>>]
    ELSE IF r.reads = <<>>
    THEN [r |-> [r EXCEPT !.buffer = <<>>, !.buffer_index = 1, !.retries = 0], c |-> <<>>]
    ELSE IF Head(r.reads).kind = "Line"
    THEN [r |-> [r EXCEPT !.reads = Tail(@), !.buffer = Head(r.reads).text,
                          !.buffer_index = 1, !.retries = 0],
          c |-> <<Head(r.reads).text[1]>>]
    ELSE IF Head(r.reads).kind = "Interrupted" /\ r.retries < RETRY_LIMIT
    THEN FileReaderIter_next([r EXCEPT !.reads = Tail(@), !.buffer = <<>>,
                                       !.buffer_index = 1, !.retries = @ + 1])
    ELSE [r |-> [r EXCEPT !.reads = Tail(@), !.buffer = <<>>, !.buffer_index = 1],
          c |-> <<>>]

\* Iterator::peekable
Peekable_new(iter) == [iter |-> iter, peeked |-> <<>>]

\* Peekable::next
Peekable_next(it) ==
    IF it.peeked /= <<>>
    THEN [it |-> [it EXCEPT !.peeked = <<>>], c |-> it.peeked[1]]
    ELSE With([n \in {FileReaderIter_next(it.iter)} |->
               [it |-> [it EXCEPT !.iter = n.r], c |-> n.c]])

\* Peekable::peek
Peekable_peek(it) ==
    IF it.peeked /= <<>>
    THEN [it |-> it, c |-> it.peeked[1]]
    ELSE With([n \in {FileReaderIter_next(it.iter)} |->
               [it |-> [iter |-> n.r, peeked |-> <<n.c>>], c |-> n.c]])

\* Peekable::next_if; pred is the set of characters the predicate accepts
Peekable_next_if(it, pred) ==
    With([n \in {Peekable_next(it)} |->
    IF n.c /= <<>> /\ n.c[1] \in pred
    THEN n
    ELSE [it |-> [n.it EXCEPT !.peeked = <<n.c>>], c |-> <<>>]])

\* the characters of the files read this way
ReaderChars == {"a", "=", "\"", "/", " ", "\n"}

\* Lexer::new, on a file whose reads are given: a lexer is [iter, position,
\* finished]
Lexer_on(reads) ==
    [iter |-> Peekable_new(FileReaderIter_new(reads)), position |-> Position_new,
     finished |-> FALSE]

RECURSIVE collect_while_iter(_, _, _)
\* Lexer::collect_while, on self.iter
collect_while_iter(lx, pred, s) ==
    With([n \in {Peekable_next_if(lx.iter, pred)} |->
    IF n.c = <<>>
    THEN [lx |-> [lx EXCEPT !.iter = n.it], s |-> s]
    ELSE LET pos1 == col_inc(lx.position)
             pos2 == IF is_new_line(n.c[1]) THEN line_inc(pos1) ELSE pos1
         IN collect_while_iter([lx EXCEPT !.iter = n.it, !.position = pos2],
                               pred, Append(s, n.c[1]))])

RECURSIVE skip_comment_iter(_)
\* Lexer::next_token, the loop that skips a `//` comment, on self.iter
skip_comment_iter(lx) ==
    With([n \in {Peekable_next_if(lx.iter, ReaderChars \ {"\n"})} |->
    IF n.c = <<>>
    THEN [lx EXCEPT !.iter = n.it]
    ELSE skip_comment_iter([lx EXCEPT !.iter = n.it, !.position = col_inc(@)])])

RECURSIVE collect_string_iter(_, _, _)
\* Lexer::next_token, the loop that reads a string literal, on self.iter
collect_string_iter(lx, str_lit, escaped) ==
    With([n \in {Peekable_next_if(lx.iter, IF escaped THEN ReaderChars
                                           ELSE ReaderChars \ {"\""})} |->
    IF n.c = <<>>
    THEN [lx |-> [lx EXCEPT !.iter = n.it], s |-> str_lit]
    ELSE collect_string_iter([lx EXCEPT !.iter = n.it, !.position = col_inc(@)],
                             Append(str_lit, n.c[1]),
                             IF n.c[1] = "\\" THEN ~escaped ELSE escaped)])

RECURSIVE next_token_iter(_)
\* Lexer::next_token, on self.iter
next_token_iter(lx0) ==
    With([lx1 \in {collect_while_iter(lx0, Whitespace, <<>>).lx} |->
    With([first \in {Peekable_next(lx1.iter)} |->
    IF first.c = <<>>
    THEN LexOk([lx1 EXCEPT !.iter = first.it, !.finished = TRUE], Token_eof(lx1.position))
    ELSE
    With([pk \in {Peekable_peek(first.it)} |->
    With([lx2 \in {[lx1 EXCEPT !.iter = pk.it, !.position = col_inc(@)]} |->
    LET start_pos == lx1.position
        c == first.c[1]
        hasNext == pk.c /= <<>>
        tt2 == IF hasNext THEN extract_keyword_or_symbol(two_char_symbol(c, pk.c[1]))
               ELSE ""
        tt1 == extract_keyword_or_symbol(<<c>>)
    IN
    IF hasNext /\ c = "/" /\ pk.c[1] = "/"
    THEN next_token_iter(skip_comment_iter(lx2))
    ELSE IF tt2 /= ""
    THEN With([n \in {Peekable_next(lx2.iter)} |->
         LET lx3 == [lx2 EXCEPT !.iter = n.it, !.position = col_inc(@)]
         IN LexOk(lx3, Token_new(tt2, <<>>, start_pos, lx3.position))])
    ELSE IF tt1 /= ""
    THEN LexOk(lx2, Token_new(tt1, <<>>, start_pos, lx2.position))
    ELSE IF is_digit(c)
    THEN With([r \in {collect_while_iter(lx2, XidContinue \cup {"."}, <<c>>)} |->
         LET span == Span_new(start_pos, r.lx.position)
         IN IF \E i \in 1..Len(r.s) : r.s[i] = "."
            THEN IF parse_f64_ok(r.s)
                 THEN LexOk(r.lx, Token_new("FloatLit", r.s, start_pos, r.lx.position))
                 ELSE LexErr(r.lx, LexerError_new("InvalidFloatLiteral", r.s, span))
            ELSE IF parse_i32_ok(r.s)
                 THEN LexOk(r.lx, Token_new("IntLit", r.s, start_pos, r.lx.position))
                 ELSE LexErr(r.lx, LexerError_new("InvalidIntLiteral", r.s, span))])
    ELSE IF c = "\""
    THEN With([r \in {collect_string_iter(lx2, <<>>, FALSE)} |->
         With([n \in {Peekable_next(r.lx.iter)} |->
         IF n.c = <<>>
         THEN LexErr([r.lx EXCEPT !.iter = n.it],
                     LexerError_new("UnterminatedStringLiteral", <<>>,
                                    Span_new(start_pos, r.lx.position)))
         ELSE LET lx3 == [r.lx EXCEPT !.iter = n.it, !.position = col_inc(@)]
              IN LexOk(lx3, Token_new("Abi", r.s, start_pos, lx3.position))])])
    ELSE IF is_xid_start(c) \/ c = "_"
    THEN With([r \in {collect_while_iter(lx2, XidContinue, <<c>>)} |->
         LET kw == extract_keyword_or_symbol(r.s)
         IN IF kw /= ""
            THEN LexOk(r.lx, Token_new(kw, IF kw = "BoolLit" THEN r.s ELSE <<>>,
                                       start_pos, r.lx.position))
            ELSE LexOk(r.lx, Token_new("Ident", r.s, start_pos, r.lx.position))])
    ELSE LexErr(lx2, LexerError_new("UnknownToken", <<c>>,
                                    Span_new(start_pos, lx2.position)))])])])])

\* <Lexer as FallibleIterator>::next, on self.iter
Lexer_next_iter(lx) ==
    IF lx.finished
    THEN [lx |-> lx, out |-> None]
    ELSE With([r \in {next_token_iter(lx)} |->
               [lx |-> r.lx, out |-> IF r.ok THEN Some(r.tok) ELSE Error(r.err)]])

----------------------------------------------------------------------------
(* SpecReader: pulling the tokens of a file whose reads can fail.  The     *)
(* plan is what happens when the file is read, in order: a line is read,   *)
(* or a number of reads in a row are interrupted, or a read fails in       *)
(* another way.                                                            *)

ReadLines ==
    <<(* a *) <<"a", "\n">>,
      (* "a *) <<"\"", "a", "\n">>,
      (* a" *) <<"a", "\"", "\n">>,
      (* =//a *) <<"=", "/", "/", "a", "\n">>,
      (* = without a new line *) <<"=">>>>

\* the events of a plan: a line of ReadLines, by its index, or a run of
\* interrupted reads, by its length, or another error
ReadEvents ==
    [kind : {"Line"}, line : 1..Len(ReadLines)]
    \cup [kind : {"Interrupted"}, times : {1, RETRY_LIMIT, RETRY_LIMIT + 1}]
    \cup {[kind |-> "Other"]}

\* the most events in a plan
MaxReads == 3

ReadPlans == UNION {[1..n -> ReadEvents] : n \in 0..MaxReads}

\* n interrupted reads
RECURSIVE InterruptedReads(_)
InterruptedReads(n) == IF n = 0 THEN <<>> ELSE <<InterruptedRead>> \o InterruptedReads(n - 1)

\* what the calls of read_line return under a plan
RECURSIVE ReadsOf(_)
ReadsOf(events) ==
    IF events = <<>> THEN <<>>
    ELSE (CASE Head(events).kind = "Line" -> <<LineRead(ReadLines[Head(events).line])>>
            [] Head(events).kind = "Interrupted" -> InterruptedReads(Head(events).times)
            [] Head(events).kind = "Other" -> <<OtherRead>>)
         \o ReadsOf(Tail(events))

\* the lines of a plan, one after the other
RECURSIVE LinesOf(_)
LinesOf(events) ==
    IF events = <<>> THEN <<>>
    ELSE (IF Head(events).kind = "Line" THEN ReadLines[Head(events).line] ELSE <<>>)
         \o LinesOf(Tail(events))

InitReader ==
    /\ \E events \in ReadPlans :
          /\ plan = [kind |-> "reads", events |-> events]
          /\ source = LinesOf(events)
          /\ lexer = Lexer_on(ReadsOf(events))
    /\ pc = "reading"
    /\ pulled = <<>>
    /\ outcome = NoResult
    /\ query = NoQuery

\* one call of lexer.next() by the caller
LexerNextReading ==
    /\ pc = "reading"
    /\ Len(pulled) < Len(source) + ExtraPulls
    /\ LET r == Lexer_next_iter(lexer)
       IN /\ lexer' = r.lx
          /\ pulled' = Append(pulled, r.out)
    /\ UNCHANGED <<source, pc, outcome, query, plan>>

NextReader == LexerNextReading

SpecReader == InitReader /\ [][NextReader]_vars

\* the text of the file up to the first read that fails for good: an error
\* other than Interrupted, or the read after ten interrupted reads in a row
RECURSIVE TextBeforeFailure(_, _)
TextBeforeFailure(reads, interrupted) ==
    IF reads = <<>> THEN <<>>
    ELSE CASE Head(reads).kind = "Line" ->
                Head(reads).text \o TextBeforeFailure(Tail(reads), 0)
           [] Head(reads).kind = "Interrupted" ->
                IF interrupted < 10 THEN TextBeforeFailure(Tail(reads), interrupted + 1)
                ELSE <<>>
           [] Head(reads).kind = "Other" -> <<>>

\* the text the lexer of the plan is to take the file for
ReadText == TextBeforeFailure(ReadsOf(plan.events), 0)

\* C28: a read of the file that fails is not handed on as an error.  An
\* interrupted read is tried again, up to ten times in a row, a line read
\* in between starting the count anew; after that, and at once on another
\* error, the file is taken to end there: what the pulls return is what
\* they return on a file that holds the text read until then, up to the EOF
\* token and the Ok(None) after it.
C28_ReadFailureEndsFile ==
    (pc = "reading" /\ plan.kind = "reads")
    => pulled = pulls(Lexer_new(ReadText), Len(pulled))

\* the text read until the failure ends inside a string literal
EndsInString ==
    LET outs == pulls(Lexer_new(ReadText), Len(ReadText) + 1)
    IN \E k \in 1..Len(outs) :
          outs[k].kind = "Err" /\ outs[k].err.kind = "UnterminatedStringLiteral"

\* what the lexer does: the file is taken to end at the failure unless the
\* failure comes inside a string literal and a later read succeeds
C28_ReadFailureOutsideString ==
    (pc = "reading" /\ plan.kind = "reads" /\ (~EndsInString \/ ReadText = source))
    => pulled = pulls(Lexer_new(ReadText), Len(pulled))

\* the line `"a` is read, the next read fails, the read after it returns
\* the line `a`: the pulls return UnterminatedStringLiteral and then the
\* identifier of the line after the failure, on line 2
C28_ResumedAfterFailureWitness ==
    /\ pc = "reading" /\ plan.kind = "reads"
    /\ plan.events = <<[kind |-> "Line", line |-> 2], [kind |-> "Other"],
                       [kind |-> "Line", line |-> 1]>>
    /\ ReadText = ReadLines[2]
    /\ Len(pulled) = 2
    /\ pulled[1].kind = "Err" /\ pulled[1].err.kind = "UnterminatedStringLiteral"
    /\ pulled[2].kind = "Some" /\ pulled[2].tok.ty = "Ident"

\* eleven interrupted reads in a row before the only line of the file: the
\* first pull returns the EOF token
C28_RetriesExhaustedWitness ==
    /\ pc = "reading" /\ plan.kind = "reads"
    /\ plan.events = <<[kind |-> "Interrupted", times |-> RETRY_LIMIT + 1],
                       [kind |-> "Line", line |-> 1]>>
    /\ Len(pulled) = 1 /\ EofAt(1)
    /\ lexer.iter.iter.retries = RETRY_LIMIT

----------------------------------------------------------------------------
(* codegen/symbol_table.rs: the symbol table of code generation, a stack   *)
(* of scopes.  A scope is a function from the names bound in it to their   *)
(* symbols; an Option is the empty sequence or a sequence of one value.    *)

\* Symbol::new
Symbol_new(name, value) == [name |-> name, value |-> value]

\* Scope::new, an empty HashMap
Scope_new == <<>>

\* HashMap::insert on a scope: the scope after it and the previous symbol
Scope_insert(scope, name, symbol) ==
    [scope |-> [n \in DOMAIN scope \cup {name} |-> IF n = name THEN symbol ELSE scope[n]],
     previous |-> IF name \in DOMAIN scope THEN <<scope[name]>> ELSE <<>>]

\* close_scope that leaves the stack as it is
close_scope_keeping(t) == t

\* get that looks through the scopes from the global scope upwards
RECURSIVE get_outermost(_, _)
get_outermost(t, name) ==
    IF t.symbol_stack = <<>> THEN <<>>
    ELSE IF name \in DOMAIN Head(t.symbol_stack) THEN <<Head(t.symbol_stack)[name]>>
    ELSE get_outermost([symbol_stack |-> Tail(t.symbol_stack)], name)

\* SymbolTable::new
SymbolTable_new == [symbol_stack |-> <<Scope_new>>]

\* SymbolTable::open_scope
SymbolTable_open_scope(t) == [symbol_stack |-> Append(t.symbol_stack, Scope_new)]

\* the panic of close_scope
ScopePanic == [panic |-> "Cannot pop the global scope"]

\* SymbolTable::close_scope: the table after it, or the panic
SymbolTable_close_scope(t) ==
    IF Len(t.symbol_stack) = 1 THEN ScopePanic
    ELSE [symbol_stack |-> SubSeq(t.symbol_stack, 1, Len(t.symbol_stack) - 1)]

\* SymbolTable::insert: the table after it and the previous symbol
SymbolTable_insert(t, name, value) ==
    With([r \in {Scope_insert(t.symbol_stack[Len(t.symbol_stack)], name,
                              Symbol_new(name, value))} |->
          [table |-> [symbol_stack |->
                         [t.symbol_stack EXCEPT ![Len(t.symbol_stack)] = r.scope]],
           previous |-> r.previous]])

\* SymbolTable::get: the scopes from the top of the stack downwards
RECURSIVE SymbolTable_get(_, _)
SymbolTable_get(t, name) ==
    IF t.symbol_stack = <<>> THEN <<>>
    ELSE IF name \in DOMAIN t.symbol_stack[Len(t.symbol_stack)]
    THEN <<t.symbol_stack[Len(t.symbol_stack)][name]>>
    ELSE SymbolTable_get([symbol_stack |->
                             SubSeq(t.symbol_stack, 1, Len(t.symbol_stack) - 1)], name)

\* SymbolTable::contains
SymbolTable_contains(t, name) ==
    \E i \in 1..Len(t.symbol_stack) : name \in DOMAIN t.symbol_stack[i]

----------------------------------------------------------------------------
(* Code generation of functions and blocks, as far as the symbol table     *)
(* goes.  The state is the symbol table, with the calls of close_scope     *)
(* and the calls of code_gen that returned written down as they happen.    *)

\* CodeGenState::new
CodeGenState_new == [symbol_table |-> SymbolTable_new, closes |-> <<>>, calls |-> <<>>]

\* what a call of code_gen leaves: the state and the result
CgRet(st, result) == [st |-> st, result |-> result]

\* state.symbol_table().open_scope()
open_scope(st) == [st EXCEPT !.symbol_table = SymbolTable_open_scope(st.symbol_table)]

\* state.symbol_table().close_scope(), followed by the return of `result`;
\* the panic of close_scope takes the place of the result
close_scope(st, result) ==
    With([t \in {SymbolTable_close_scope(st.symbol_table)} |->
          IF t = ScopePanic
          THEN CgRet([st EXCEPT !.closes = Append(@, Len(st.symbol_table.symbol_stack))],
                     CgPanic(ScopePanic.panic))
          ELSE CgRet([st EXCEPT !.symbol_table = t,
                                !.closes = Append(@, Len(st.symbol_table.symbol_stack))],
                     result)])

\* a call of code_gen of `node` that was entered with the table `before`
\* comes back as `ret`: calls that return are written down
returned(node, before, ret) ==
    IF ret.result.kind = "Panic" THEN ret
    ELSE [ret EXCEPT !.st.calls =
             Append(@, [node |-> node, result |-> ret.result.kind, before |-> before,
                        after |-> ret.st.symbol_table])]

RECURSIVE BlockASTNode_code_gen(_, _)
RECURSIVE block_statements(_, _, _)
RECURSIVE statement_code_gen(_, _)
RECURSIVE expr_code_gen(_, _)

\* CodeGen::code_gen of an expression: a block, or another expression that
\* returns a value, returns an error, or panics (todo!())
expr_code_gen(e, st) ==
    CASE e.node = "Block" -> BlockASTNode_code_gen(e, st)
      [] e.node = "Expr" ->
           (CASE e.result = "Ok" -> CgRet(st, CgOk("IntValue"))
              [] e.result = "Err" -> CgRet(st, CgErr([kind |-> "CodeGenError"]))
              [] e.result = "Panic" -> CgRet(st, CgPanic("not yet implemented")))

\* CodeGen::code_gen of a statement: ExprStmtASTNode and LetASTNode
statement_code_gen(s, st) ==
    CASE s.node = "ExprStmt" ->
           With([r \in {expr_code_gen(s.expr, st)} |->
                 IF r.result.kind = "Ok" THEN CgRet(r.st, CgOk("Unit")) ELSE r])
      [] s.node = "Let" ->
           With([r \in {IF s.value = <<>> THEN CgRet(st, CgOk("None"))
                        ELSE expr_code_gen(s.value[1], st)} |->
                 IF r.result.kind /= "Ok" THEN r
                 ELSE IF s.decl = "Literal"
                 THEN CgRet(r.st, CgErr([kind |-> "WrongExpressionKind",
                                         message |-> "Expected an assignee expression"]))
                 ELSE IF s.decl = "_" THEN CgRet(r.st, CgOk("Unit"))
                 ELSE CgRet([r.st EXCEPT !.symbol_table =
                                SymbolTable_insert(r.st.symbol_table, s.decl,
                                                   "PointerValue").table],
                            CgOk("Unit"))])

\* BlockASTNode::code_gen: the loop over the statements, from the i-th on,
\* and what follows it
block_statements(self, st, i) ==
    IF i <= Len(self.statements)
    THEN With([r \in {statement_code_gen(self.statements[i], st)} |->
               CASE r.result.kind = "Panic" -> r
                 [] r.result.kind = "Err" -> close_scope(r.st, r.result)
                 [] r.result.kind = "Ok" -> block_statements(self, r.st, i + 1)])
    ELSE With([ret_value \in {IF self.return_expr = <<>>
                              THEN CgRet(st, CgOk("StructValue0"))
                              ELSE expr_code_gen(self.return_expr[1], st)} |->
               IF ret_value.result.kind = "Panic" THEN ret_value
               ELSE close_scope(ret_value.st, ret_value.result)])

\* <BlockASTNode as CodeGen>::code_gen
BlockASTNode_code_gen(self, st) ==
    returned("Block", st.symbol_table, block_statements(self, open_scope(st), 1))

\* FuncASTNode::code_gen: the loop over the parameters, from the i-th on,
\* the body, and what follows it
RECURSIVE func_params(_, _, _)
func_params(self, st, i) ==
    IF i <= Len(self.proto.params)
    THEN CASE self.proto.params[i] = "Err" ->
                close_scope(st, CgErr([kind |-> "SemanticError"]))
           [] self.proto.params[i] = "_" -> func_params(self, st, i + 1)
           [] OTHER ->
                func_params(self,
                            [st EXCEPT !.symbol_table =
                                SymbolTable_insert(st.symbol_table, self.proto.params[i],
                                                   "IntValue").table],
                            i + 1)
    ELSE With([r \in {BlockASTNode_code_gen(self.body, st)} |->
               CASE r.result.kind = "Panic" -> r
                 [] r.result.kind = "Err" -> close_scope(r.st, r.result)
                 [] r.result.kind = "Ok" -> close_scope(r.st, CgOk("Unit"))])

\* <FuncASTNode as CodeGen>::code_gen
FuncASTNode_code_gen(self, st) ==
    With([opened \in {open_scope(st)} |->
          With([s \in {SymbolTable_get(opened.symbol_table, self.proto.name)} |->
                IF s = <<>>
                THEN CgRet(opened, CgPanic("Function could not be found in the symbol table"))
                ELSE IF s[1].value /= "FunctionValue"
                THEN CgRet(opened, CgPanic("Function is not a function value"))
                ELSE returned("Func", st.symbol_table, func_params(self, opened, 1))])])

----------------------------------------------------------------------------
(* SpecCodeGen: code generation of one function, or of its body alone,     *)
(* after the collection phase.  The plan is the function and what the      *)
(* global scope holds for its name.                                        *)

\* ExprStmtASTNode, LetASTNode, BlockASTNode, FuncASTNode as code
\* generation sees them
ExprStmt(e) == [node |-> "ExprStmt", expr |-> e]
Let(value, decl) == [node |-> "Let", value |-> value, decl |-> decl]
Block(statements, return_expr) ==
    [node |-> "Block", statements |-> statements, return_expr |-> return_expr]
Func(name, params, body) ==
    [node |-> "Func", proto |-> [name |-> name, params |-> params], body |-> body]

\* expressions other than blocks: code_gen returns a value, returns an
\* error, panics
Leaves == {[node |-> "Expr", result |-> r] : r \in {"Ok", "Err", "Panic"}}

\* statements without a block: `let a: i32;`, and `let 1: i32 = e;` whose
\* declaration is no assignee
SimpleStatements ==
    {ExprStmt(e) : e \in Leaves}
    \cup {Let(<<>>, "a"), Let(<<[node |-> "Expr", result |-> "Ok"]>>, "Literal")}

\* the most statements in a block
MaxBlockStmts == 1

\* the most blocks inside the body of the function, one in the other
MaxNesting == 1

\* the most parameters of the function
MaxFuncParams == 1

SeqsUpTo(S, n) == UNION {[1..k -> S] : k \in 0..n}

OptionOf(S) == {<<>>} \cup {<<x>> : x \in S}

\* blocks without a block inside
FlatBlocks ==
    {Block(ss, r) : ss \in SeqsUpTo(SimpleStatements, MaxBlockStmts), r \in OptionOf(Leaves)}

\* blocks that hold one block of B, as their last statement or as their
\* final expression
BlocksAround(B) ==
    {Block(Append(ss, ExprStmt(b)), r) :
        ss \in SeqsUpTo(SimpleStatements, MaxBlockStmts - 1), r \in OptionOf(Leaves), b \in B}
    \cup {Block(ss, <<b>>) : ss \in SeqsUpTo(SimpleStatements, MaxBlockStmts), b \in B}

RECURSIVE BlocksAt(_)
BlocksAt(d) == IF d = 0 THEN FlatBlocks ELSE FlatBlocks \cup BlocksAround(BlocksAt(d - 1))

\* parameters: a name, `_`, or an assignee that is an error
ParamKinds == {"a", "_", "Err"}

CodeGenFuncs ==
    {Func("f", ps, b) : ps \in SeqsUpTo(ParamKinds, MaxFuncParams), b \in BlocksAt(MaxNesting)}

\* what the global scope holds for the name of the function: the function,
\* nothing (no collection phase), or a static declared after it
GlobalKinds == {"FunctionValue", "None", "PointerValue"}

\* the state after CrateASTNode::collect_symbols
Collected(global) ==
    IF global = "None" THEN CodeGenState_new
    ELSE [CodeGenState_new EXCEPT !.symbol_table =
             SymbolTable_insert(CodeGenState_new.symbol_table, "f", global).table]

InitCodeGen ==
    /\ \E f \in CodeGenFuncs, g \in GlobalKinds :
          /\ plan = [kind |-> "codegen", func |-> f, global |-> g]
          /\ outcome = [kind |-> "Collected", st |-> Collected(g)]
    /\ source = <<>>
    /\ pc = "collected"
    /\ lexer = NoLexer
    /\ pulled = <<>>
    /\ query = NoQuery

\* code generation of the function
FuncCodeGen ==
    /\ pc = "collected"
    /\ plan.kind = "codegen"
    /\ pc' = "generated"
    /\ outcome' = With([r \in {FuncASTNode_code_gen(plan.func, outcome.st)} |->
                        [kind |-> "Generated", node |-> "Func", st |-> r.st,
                         result |-> r.result]])
    /\ UNCHANGED <<source, lexer, pulled, query, plan>>

\* code generation of the body alone
BlockCodeGen ==
    /\ pc = "collected"
    /\ plan.kind = "codegen"
    /\ pc' = "generated"
    /\ outcome' = With([r \in {BlockASTNode_code_gen(plan.func.body, outcome.st)} |->
                        [kind |-> "Generated", node |-> "Block", st |-> r.st,
                         result |-> r.result]])
    /\ UNCHANGED <<source, lexer, pulled, query, plan>>

NextCodeGen == FuncCodeGen \/ BlockCodeGen

SpecCodeGen == InitCodeGen /\ [][NextCodeGen]_vars

Generated == pc = "generated" /\ plan.kind = "codegen"

\* C29: code generation keeps the stack of scopes balanced.  Every call of
\* code_gen of a block or of a function that returns, with a value or with
\* an error, leaves the symbol table as it found it: it has opened one
\* scope and closed that scope, once.  close_scope is never called with the
\* global scope alone on the stack, so it never panics, and the stack is
\* never empty.
C29_ScopeStackBalanced ==
    Generated =>
      /\ \A i \in DOMAIN outcome.st.calls :
            outcome.st.calls[i].after = outcome.st.calls[i].before
      /\ Len(outcome.st.closes) = Len(outcome.st.calls)
      /\ \A i \in DOMAIN outcome.st.closes : outcome.st.closes[i] >= 2
      /\ Len(outcome.st.symbol_table.symbol_stack) >= 1
      /\ outcome.result /= CgPanic(ScopePanic.panic)
      /\ (outcome.result.kind \in {"Ok", "Err"}
            => outcome.st.symbol_table = Collected(plan.global).symbol_table)

\* `fn f(a) { { e } }` where code_gen of e returns an error: the inner
\* block, the body and the function return the error, each after closing
\* its scope
C29_Witness ==
    /\ Generated
    /\ outcome.node = "Func"
    /\ plan.func.proto.params = <<"a">>
    /\ plan.func.body.statements =
          <<ExprStmt(Block(<<ExprStmt([node |-> "Expr", result |-> "Err"])>>, <<>>))>>
    /\ outcome.result.kind = "Err"
    /\ Len(outcome.st.calls) = 3
    /\ outcome.st.closes = <<4, 3, 2>>
    /\ \A i \in 1..3 : outcome.st.calls[i].result = "Err"

\* a panic inside the body leaves the scopes of the calls it unwinds open
C29_PanicWitness ==
    /\ Generated
    /\ outcome.result.kind = "Panic"
    /\ Len(outcome.st.symbol_table.symbol_stack) = 4
    /\ outcome.st.calls = <<>>

----------------------------------------------------------------------------
(* SpecTable: a symbol table under open_scope, close_scope and insert, in  *)
(* any order.  The calls made so far are written down, an insert with the  *)
(* previous symbol it returned.                                            *)

TableNames == {"a", "b"}

\* the most calls made on the table
MaxTableOps == 6

InitTable ==
    /\ plan = [kind |-> "table"]
    /\ outcome = [kind |-> "Table", symbol_table |-> SymbolTable_new]
    /\ pulled = <<>>
    /\ pc = "table"
    /\ source = <<>>
    /\ lexer = NoLexer
    /\ query = NoQuery

CanCallTable == pc = "table" /\ plan.kind = "table" /\ Len(pulled) < MaxTableOps

\* symbol_table.open_scope()
OpenScope ==
    /\ CanCallTable
    /\ outcome' = [outcome EXCEPT !.symbol_table = SymbolTable_open_scope(@)]
    /\ pulled' = Append(pulled, [op |-> "open_scope"])
    /\ UNCHANGED <<source, pc, lexer, query, plan>>

\* symbol_table.close_scope(); its panic ends the program
CloseScope ==
    /\ CanCallTable
    /\ \/ /\ SymbolTable_close_scope(outcome.symbol_table) = ScopePanic
          /\ pc' = "panicked"
          /\ UNCHANGED <<outcome, pulled>>
       \/ /\ SymbolTable_close_scope(outcome.symbol_table) /= ScopePanic
          /\ outcome' = [outcome EXCEPT !.symbol_table = SymbolTable_close_scope(@)]
          /\ pulled' = Append(pulled, [op |-> "close_scope"])
          /\ pc' = pc
    /\ UNCHANGED <<source, lexer, query, plan>>

\* symbol_table.insert(name, value); the value is the number of the call
Insert ==
    /\ CanCallTable
    /\ \E name \in TableNames :
          /\ outcome' = [outcome EXCEPT !.symbol_table =
                            SymbolTable_insert(@, name, Len(pulled) + 1).table]
          /\ pulled' = Append(pulled,
                 [op |-> "insert", name |-> name, value |-> Len(pulled) + 1,
                  previous |-> SymbolTable_insert(outcome.symbol_table, name,
                                                  Len(pulled) + 1).previous])
    /\ UNCHANGED <<source, pc, lexer, query, plan>>

NextTable == OpenScope \/ CloseScope \/ Insert

SpecTable == InitTable /\ [][NextTable]_vars

\* the binding of `name` after the first i calls, read from the calls alone,
\* last call first: `closed` counts the scopes met that were closed since;
\* with `current` the search stops where the current scope was opened
RECURSIVE Binding(_, _, _, _, _)
Binding(calls, i, name, closed, current) ==
    IF i = 0 THEN <<>>
    ELSE CASE calls[i].op = "close_scope" -> Binding(calls, i - 1, name, closed + 1, current)
           [] calls[i].op = "open_scope" ->
                IF closed > 0 THEN Binding(calls, i - 1, name, closed - 1, current)
                ELSE IF current THEN <<>>
                ELSE Binding(calls, i - 1, name, 0, current)
           [] calls[i].op = "insert" ->
                IF closed = 0 /\ calls[i].name = name
                THEN <<Symbol_new(name, calls[i].value)>>
                ELSE Binding(calls, i - 1, name, closed, current)

\* C30: lookup follows lexical shadowing.  After any calls of open_scope,
\* close_scope and insert, get(name) is the symbol inserted last for the
\* name in the innermost open scope that holds the name, or nothing when no
\* open scope holds it (so after close_scope the names of the closed scope
\* are bound as in the scopes around it); contains(name) is true exactly
\* when get(name) is a symbol; and every insert has returned the symbol the
\* current scope held for the name, the scopes around it left aside.
C30_LexicalShadowing ==
    (plan.kind = "table") =>
      /\ \A name \in TableNames :
            /\ SymbolTable_get(outcome.symbol_table, name)
                  = Binding(pulled, Len(pulled), name, 0, FALSE)
            /\ SymbolTable_contains(outcome.symbol_table, name)
                  <=> SymbolTable_get(outcome.symbol_table, name) /= <<>>
      /\ \A i \in DOMAIN pulled :
            pulled[i].op = "insert"
               => pulled[i].previous = Binding(pulled, i - 1, pulled[i].name, 0, TRUE)

\* insert a; open_scope; insert a; insert a; close_scope: the second insert
\* returned nothing, the third the symbol of the second, and after
\* close_scope the name is bound to the symbol of the first insert
C30_Witness ==
    /\ plan.kind = "table"
    /\ Len(pulled) = 5
    /\ pulled[1] = [op |-> "insert", name |-> "a", value |-> 1, previous |-> <<>>]
    /\ pulled[2].op = "open_scope"
    /\ pulled[3] = [op |-> "insert", name |-> "a", value |-> 3, previous |-> <<>>]
    /\ pulled[4] = [op |-> "insert", name |-> "a", value |-> 4,
                    previous |-> <<Symbol_new("a", 3)>>]
    /\ pulled[5].op = "close_scope"
    /\ SymbolTable_get(outcome.symbol_table, "a") = <<Symbol_new("a", 1)>>
    /\ ~SymbolTable_contains(outcome.symbol_table, "b")

====
